---- MODULE Spec2Model ----
(***************************************************************************)
(* The context-window scripts of src/Agents/agents-learning/code:          *)
(*                                                                         *)
(*   17-context-window-management.py                                       *)
(*     class ConversationManager (part 5): conversation turns, the         *)
(*     summarization trigger, _compress, build_context and chat, used by   *)
(*     one caller (Spec) and by two callers at once (SpecConcurrent);      *)
(*     truncate_history (part 2, SpecTruncate);                            *)
(*     sliding_window_by_tokens (part 3, SpecSliding);                     *)
(*   18-prompt-chaining.py                                                 *)
(*     run_blog_pipeline with its gate count_points (SpecPipeline);        *)
(*     example 4, the chain with the JSON gate (SpecJsonGate).             *)
(*                                                                         *)
(* A text is a sequence of one-character strings, so that strip(), the     *)
(* f-string formatting, len(text) // 4 and Python's truthiness of "" are   *)
(* computed, not assumed.  A message {"role": r, "parts": [{"text": t}]}   *)
(* is the record [role |-> r, text |-> t].  The optional summary is <<>>   *)
(* for None and <<t>> for the text t.                                      *)
(***************************************************************************)
EXTENDS Integers, Sequences, FiniteSets, TLC

(***************************************************************************)
(* Bounds of the model.                                                    *)
(***************************************************************************)
MaxWindow ==
    2

MaxThreshold ==
    4

MaxTurns ==
    5

\* The longest history given to truncate_history, in messages, and the
\* largest max_turns.
MaxHistory ==
    8

MaxKeep ==
    5

\* The longest history given to sliding_window_by_tokens, in turn pairs, and
\* the largest max_total_tokens.
MaxPairs ==
    3

MaxBudget ==
    5

(***************************************************************************)
(* Inputs: the texts callers and the hosted model may supply.              *)
(***************************************************************************)
\* The decimal digit of k as a character.
DigitChar(k) ==
    <<"0", "1", "2", "3", "4", "5", "6", "7", "8", "9">>[k + 1]

\* The caller's k-th question, as the demo's questions list gives one per turn,
\* and the empty message.
Question(k) ==
    <<"q", DigitChar(k)>>

UserMessages(k) ==
    {<<>>, Question(k)}

\* The text the hosted model returns for the k-th turn, before strip().
RawReplyTexts(k) ==
    {<<" ", "r", DigitChar(k), "\n">>}

\* The model_response a direct caller of add_turn passes for the k-th turn.
ModelResponses(k) ==
    {<<"r", DigitChar(k)>>}

\* The texts the hosted model returns for the k-th summarization, before
\* strip(): only whitespace, or a summary.
RawSummaryTexts(k) ==
    {<<" ">>, <<"s", DigitChar(k), "\n">>}

\* A response of client.models.generate_content: it returns a text, or raises.
ServiceFailure ==
    [ok |-> FALSE, text |-> <<>>]

ReplyOutcomes(k) ==
    {ServiceFailure} \cup {[ok |-> TRUE, text |-> t] : t \in RawReplyTexts(k)}

SummaryOutcomes(k) ==
    {ServiceFailure} \cup {[ok |-> TRUE, text |-> t] : t \in RawSummaryTexts(k)}

(***************************************************************************)
(* Python values and string operations.                                    *)
(***************************************************************************)
None ==
    <<>>

Some(t) ==
    <<t>>

\* bool(x) of an optional text: None and "" are both falsy.
Truthy(s) ==
    s # None /\ Len(s[1]) > 0

IsSpace(c) ==
    c \in {" ", "\n", "\t"}

RECURSIVE LStrip(_)
LStrip(t) ==
    IF Len(t) = 0 THEN t
    ELSE IF IsSpace(Head(t)) THEN LStrip(Tail(t)) ELSE t

RECURSIVE RStrip(_)
RStrip(t) ==
    IF Len(t) = 0 THEN t
    ELSE IF IsSpace(t[Len(t)]) THEN RStrip(SubSeq(t, 1, Len(t) - 1)) ELSE t

\* str.strip()
strip(t) ==
    RStrip(LStrip(t))

\* A slice bound i normalised against a list of length n, as list slicing does.
PyIndex(i, n) ==
    IF i < 0 THEN (IF n + i < 0 THEN 0 ELSE n + i)
    ELSE (IF i > n THEN n ELSE i)

\* L[:stop]
PySliceTo(L, stop) ==
    SubSeq(L, 1, PyIndex(stop, Len(L)))

\* L[start:]
PySliceFrom(L, start) ==
    SubSeq(L, PyIndex(start, Len(L)) + 1, Len(L))

Msg(role, text) ==
    [role |-> role, text |-> text]

(***************************************************************************)
(* String literals of the source.                                          *)
(***************************************************************************)
PreviousSummaryLabel ==
    <<"P", "r", "e", "v", "i", "o", "u", "s", " ", "s", "u", "m", "m", "a", "r", "y", ":", " ">>

UserLabel ==
    <<"U", "s", "e", "r">>

AssistantLabel ==
    <<"A", "s", "s", "i", "s", "t", "a", "n", "t">>

SummaryOpen ==
    <<"[", "C", "o", "n", "v", "e", "r", "s", "a", "t", "i", "o", "n", " ", "s", "u", "m", "m", "a", "r", "y", " ", "s", "o", " ", "f", "a", "r", ":", " ">>

SummaryClose ==
    <<"]">>

SummaryAck ==
    <<"I", " ", "r", "e", "c", "a", "l", "l", " ", "o", "u", "r", " ", "p", "r", "e", "v", "i", "o", "u", "s", " ", "d", "i", "s", "c", "u", "s", "s", "i", "o", "n", ".", " ", "H", "o", "w", " ", "c", "a", "n", " ", "I", " ", "h", "e", "l", "p", "?">>

(***************************************************************************)
(* State.  The first six variables are the fields of ConversationManager;  *)
(* the others are what a recording test double of the hosted model and a   *)
(* caller observe: the last operation with its calls, error and result,    *)
(* and running logs of the add_turn and summarization calls.               *)
(***************************************************************************)
VARIABLES
    max_recent_turns,
    summarize_threshold,
    full_history,
    summary,
    recent_turns,
    turn_count,
    lastOp,
    add_turn_calls,
    added,
    ever_exceeded,
    summarize_calls,
    summarize_failed

\* Two callers sharing one manager (threads of one process): where each caller
\* is inside chat with its local variables, the number of chats begun, and
\* the messages handed to the summarization calls that succeeded.
VARIABLES
    callers,
    chats_begun,
    folded

\* The module-level functions of parts 2 and 3: their arguments and what the
\* call returned.
VARIABLES
    history,
    max_turns,
    system_prompt,
    max_total_tokens,
    returned

\* run_blog_pipeline of 18-prompt-chaining.py: the statement it is at, its
\* argument and local variables, the calls of call_gemini it made, and what it
\* returned or raised.
VARIABLES
    pipeline_pc,
    topic,
    key_points,
    draft,
    critique,
    final,
    llm_calls,
    pipeline_returned

\* Example 4 of 18-prompt-chaining.py, the chain with the JSON gate: the
\* statement the script is at, its module-level variables (<<>> while a name
\* is not bound), the calls of call_gemini it made, and the exception that
\* ended the script.
VARIABLES
    example4_pc,
    raw_json,
    metadata,
    gate_passed,
    draft4,
    example4_calls,
    escaped

managerVars ==
    <<max_recent_turns, summarize_threshold, full_history, summary,
      recent_turns, turn_count, lastOp, add_turn_calls, added,
      ever_exceeded, summarize_calls, summarize_failed>>

callerVars ==
    <<callers, chats_begun, folded>>

windowVars ==
    <<history, max_turns, system_prompt, max_total_tokens, returned>>

pipelineVars ==
    <<pipeline_pc, topic, key_points, draft, critique, final, llm_calls,
      pipeline_returned>>

example4Vars ==
    <<example4_pc, raw_json, metadata, gate_passed, draft4, example4_calls,
      escaped>>

vars ==
    <<managerVars, callerVars, windowVars, pipelineVars, example4Vars>>

fields ==
    <<max_recent_turns, summarize_threshold, full_history, summary,
      recent_turns, turn_count>>

\* The parts of the scripts a specification does not run stay as they are
\* before anything was called.
Callers ==
    {"A", "B"}

IdleCaller ==
    [pc |-> "idle", number |-> 0, user_message |-> <<>>, context |-> <<>>,
     to_summarize |-> <<>>, to_keep |-> <<>>, conversation_text |-> <<>>]

NotCalled ==
    [fn |-> "none", value |-> <<>>, tokens |-> 0]

\* No manager is in use: the fields of one that recorded nothing.
NoManager ==
    /\ max_recent_turns = 0
    /\ summarize_threshold = 0
    /\ full_history = <<>>
    /\ summary = <<>>
    /\ recent_turns = <<>>
    /\ turn_count = 0
    /\ lastOp = [op |-> "__init__", msg |-> <<>>, reply |-> <<>>, error |-> "none",
                 calls |-> <<>>, result |-> <<>>]
    /\ add_turn_calls = 0
    /\ added = <<>>
    /\ ever_exceeded = FALSE
    /\ summarize_calls = 0
    /\ summarize_failed = FALSE

CallersIdle ==
    /\ callers = [c \in Callers |-> IdleCaller]
    /\ chats_begun = 0
    /\ folded = <<>>

WindowIdle ==
    /\ history = <<>>
    /\ max_turns = 0
    /\ system_prompt = <<>>
    /\ max_total_tokens = 0
    /\ returned = NotCalled

PipelineIdle ==
    /\ pipeline_pc = "not called"
    /\ topic = <<>>
    /\ key_points = <<>>
    /\ draft = <<>>
    /\ critique = <<>>
    /\ final = <<>>
    /\ llm_calls = <<>>
    /\ pipeline_returned = <<>>

NotRaised ==
    [exception |-> "none", at |-> "none"]

Example4Idle ==
    /\ example4_pc = "not run"
    /\ raw_json = <<>>
    /\ metadata = <<>>
    /\ gate_passed = <<>>
    /\ draft4 = <<>>
    /\ example4_calls = <<>>
    /\ escaped = NotRaised

(***************************************************************************)
(* _compress                                                               *)
(***************************************************************************)
ToSummarize_SkipsOldestTurn(rt, W) ==
    LET to_summarize == PySliceTo(rt, -(W * 2))
    IN  SubSeq(to_summarize, 3, Len(to_summarize))

\* to_summarize = self.recent_turns[:-keep_count]
ToSummarize(rt, W) ==
    PySliceTo(rt, -(W * 2))

ToKeep_Oldest(rt, W) ==
    PySliceTo(rt, W * 2)

ToKeep_SplitsPair(rt, W) ==
    PySliceFrom(rt, -(W * 2 + 1))

\* to_keep = self.recent_turns[-keep_count:]
ToKeep(rt, W) ==
    PySliceFrom(rt, -(W * 2))

SummaryPrefix_Dropped(s) ==
    <<>>

\* summary_prefix: f"Previous summary: {self.summary}\n\n" if self.summary, else ""
SummaryPrefix(s) ==
    IF Truthy(s) THEN PreviousSummaryLabel \o s[1] \o <<"\n", "\n">> ELSE <<>>

RoleLabel(m) ==
    IF m.role = "user" THEN UserLabel ELSE AssistantLabel

\* the loop "for msg in to_summarize": one line f"{role}: {text}\n" per message
RECURSIVE RenderLines(_)
RenderLines(msgs) ==
    IF Len(msgs) = 0 THEN <<>>
    ELSE RoleLabel(Head(msgs)) \o <<":", " ">> \o Head(msgs).text \o <<"\n">>
         \o RenderLines(Tail(msgs))

ConversationText(s, to_summarize) ==
    SummaryPrefix(s) \o RenderLines(to_summarize)

\* One call of client.models.generate_content as a recording double sees it:
\* the system instruction, the contents, whether it returned and with what text.
ServiceCall(kind, system, contents, resp) ==
    [kind |-> kind, system |-> system, contents |-> contents,
     ok |-> resp.ok, text |-> resp.text]

SummarizeInstruction ==
    "Summarize this conversation in 2-3 sentences. Capture the key topics, facts, and decisions. Be concise."

_compress_ForgetsOnFailure(s, rt, W, resp) ==
    [summary |-> IF resp.ok THEN Some(strip(resp.text)) ELSE None,
     recent_turns |-> IF resp.ok THEN ToKeep(rt, W) ELSE rt,
     calls |-> <<ServiceCall("summarize", SummarizeInstruction,
                             ConversationText(s, ToSummarize(rt, W)), resp)>>,
     error |-> IF resp.ok THEN "none" ELSE "ServiceError"]

_compress_TruncatesBeforeCall(s, rt, W, resp) ==
    [summary |-> IF resp.ok THEN Some(strip(resp.text)) ELSE s,
     recent_turns |-> ToKeep(rt, W),
     calls |-> <<ServiceCall("summarize", SummarizeInstruction,
                             ConversationText(s, ToSummarize(rt, W)), resp)>>,
     error |-> IF resp.ok THEN "none" ELSE "ServiceError"]

\* _compress on summary s and recent_turns rt with window W, the summarization
\* call answering resp: the new summary and recent_turns, the call made and the
\* exception that escapes (both assignments follow the call).
_compress(s, rt, W, resp) ==
    LET to_summarize == ToSummarize(rt, W)
        to_keep == ToKeep(rt, W)
        conversation_text == ConversationText(s, to_summarize)
        call == ServiceCall("summarize", SummarizeInstruction, conversation_text, resp)
    IN  IF resp.ok
        THEN [summary |-> Some(strip(resp.text)),
              recent_turns |-> to_keep,
              calls |-> <<call>>,
              error |-> "none"]
        ELSE [summary |-> s,
              recent_turns |-> rt,
              calls |-> <<call>>,
              error |-> "ServiceError"]

(***************************************************************************)
(* add_turn                                                                *)
(***************************************************************************)
NeedsCompress_AtThreshold(rt, T) ==
    Len(rt) \div 2 >= T

\* if len(self.recent_turns) // 2 > self.summarize_threshold
NeedsCompress(rt, T) ==
    Len(rt) \div 2 > T

\* the two appends of one turn pair
AppendTurn(h, u, m) ==
    h \o <<Msg("user", u), Msg("model", m)>>

AddTurnResult_CountsAfterCompress(u, m, resp) ==
    LET rt == AppendTurn(recent_turns, u, m)
        c == IF NeedsCompress(rt, summarize_threshold)
             THEN _compress(summary, rt, max_recent_turns, resp)
             ELSE [summary |-> summary, recent_turns |-> rt,
                   calls |-> <<>>, error |-> "none"]
    IN  [full_history |-> AppendTurn(full_history, u, m),
         recent_turns |-> c.recent_turns,
         summary |-> c.summary,
         turn_count |-> IF c.error = "none" THEN turn_count + 1 ELSE turn_count,
         calls |-> c.calls,
         error |-> c.error,
         reply |-> m,
         add_turn_called |-> TRUE]

AddTurnResult_CompressTrimsHistory(u, m, resp) ==
    LET rt == AppendTurn(recent_turns, u, m)
        c == IF NeedsCompress(rt, summarize_threshold)
             THEN _compress(summary, rt, max_recent_turns, resp)
             ELSE [summary |-> summary, recent_turns |-> rt,
                   calls |-> <<>>, error |-> "none"]
    IN  [full_history |-> IF c.calls # <<>> /\ c.error = "none"
                          THEN ToKeep(AppendTurn(full_history, u, m), max_recent_turns)
                          ELSE AppendTurn(full_history, u, m),
         recent_turns |-> c.recent_turns,
         summary |-> c.summary,
         turn_count |-> turn_count + 1,
         calls |-> c.calls,
         error |-> c.error,
         reply |-> m,
         add_turn_called |-> TRUE]

\* add_turn(u, m) in the current state, the summarization call (if one is made)
\* answering resp: the fields afterwards, the calls made, the exception raised.
AddTurnResult(u, m, resp) ==
    LET rt == AppendTurn(recent_turns, u, m)
        c == IF NeedsCompress(rt, summarize_threshold)
             THEN _compress(summary, rt, max_recent_turns, resp)
             ELSE [summary |-> summary, recent_turns |-> rt,
                   calls |-> <<>>, error |-> "none"]
    IN  [full_history |-> AppendTurn(full_history, u, m),
         recent_turns |-> c.recent_turns,
         summary |-> c.summary,
         turn_count |-> turn_count + 1,
         calls |-> c.calls,
         error |-> c.error,
         reply |-> m,
         add_turn_called |-> TRUE]

\* The effect of an operation whose outcome is r: the fields it assigned, what
\* its caller and the recording double saw, and the running logs of add_turn.
Apply(op, user_message, r) ==
    /\ r.turn_count <= MaxTurns
    /\ full_history' = r.full_history
    /\ recent_turns' = r.recent_turns
    /\ summary' = r.summary
    /\ turn_count' = r.turn_count
    /\ lastOp' = [op |-> op, msg |-> user_message, reply |-> r.reply,
                  error |-> r.error, calls |-> r.calls, result |-> <<>>]
    /\ add_turn_calls' = add_turn_calls + (IF r.add_turn_called THEN 1 ELSE 0)
    /\ added' = IF r.add_turn_called
                THEN Append(added, <<user_message, r.reply>>) ELSE added
    /\ ever_exceeded' =
         (ever_exceeded
          \/ (r.add_turn_called
              /\ (Len(recent_turns) + 2) \div 2 > summarize_threshold))
    /\ summarize_calls' =
         summarize_calls + Len(SelectSeq(r.calls, LAMBDA c : c.kind = "summarize"))
    /\ summarize_failed' =
         (summarize_failed
          \/ \E i \in 1..Len(r.calls) : r.calls[i].kind = "summarize" /\ ~r.calls[i].ok)
    /\ folded' =
         IF r.add_turn_called
            /\ \E i \in 1..Len(r.calls) : r.calls[i].kind = "summarize" /\ r.calls[i].ok
         THEN folded \o ToSummarize(AppendTurn(recent_turns, user_message, r.reply),
                                    max_recent_turns)
         ELSE folded
    /\ UNCHANGED <<max_recent_turns, summarize_threshold>>
    /\ UNCHANGED <<callers, chats_begun, windowVars, pipelineVars, example4Vars>>

add_turn(user_message, model_response, resp) ==
    Apply("add_turn", user_message, AddTurnResult(user_message, model_response, resp))

(***************************************************************************)
(* build_context                                                           *)
(***************************************************************************)
SummaryTurn_AckFirst(s) ==
    <<Msg("model", SummaryAck), Msg("user", SummaryOpen \o s[1] \o SummaryClose)>>

SummaryTurn(s) ==
    <<Msg("user", SummaryOpen \o s[1] \o SummaryClose), Msg("model", SummaryAck)>>

build_context_SummaryLast(s, rt, new_message) ==
    rt
    \o (IF Truthy(s) THEN SummaryTurn(s) ELSE <<>>)
    \o <<Msg("user", new_message)>>

build_context(s, rt, new_message) ==
    (IF Truthy(s) THEN SummaryTurn(s) ELSE <<>>)
    \o rt
    \o <<Msg("user", new_message)>>

BuildContext_RecordsMessage(new_message) ==
    /\ lastOp' = [op |-> "build_context", msg |-> new_message, reply |-> <<>>,
                  error |-> "none", calls |-> <<>>,
                  result |-> build_context(summary, recent_turns, new_message)]
    /\ recent_turns' = recent_turns \o <<Msg("user", new_message)>>
    /\ UNCHANGED <<max_recent_turns, summarize_threshold, full_history, summary,
                   turn_count, add_turn_calls, added, ever_exceeded,
                   summarize_calls, summarize_failed>>
    /\ UNCHANGED <<callerVars, windowVars, pipelineVars, example4Vars>>

BuildContext(new_message) ==
    /\ lastOp' = [op |-> "build_context", msg |-> new_message, reply |-> <<>>,
                  error |-> "none", calls |-> <<>>,
                  result |-> build_context(summary, recent_turns, new_message)]
    /\ UNCHANGED <<fields, add_turn_calls, added, ever_exceeded, summarize_calls,
                   summarize_failed>>
    /\ UNCHANGED <<callerVars, windowVars, pipelineVars, example4Vars>>

(***************************************************************************)
(* chat                                                                    *)
(***************************************************************************)
ChatResult_RecordsBeforeCall(user_message, reply, resp) ==
    LET context == build_context(summary, recent_turns, user_message)
        call == ServiceCall("generate", "system_prompt", context, reply)
        r == AddTurnResult(user_message, strip(reply.text), resp)
    IN  [r EXCEPT !.calls = <<call>> \o r.calls,
                  !.error = IF reply.ok THEN r.error ELSE "ServiceError",
                  !.add_turn_called = reply.ok]

ChatResult_BuildsContextAfterRecording(user_message, reply, resp) ==
    LET r == AddTurnResult(user_message, strip(reply.text), resp)
        context == build_context(r.summary, r.recent_turns, user_message)
        call == ServiceCall("generate", "system_prompt", context, reply)
    IN  IF ~reply.ok
        THEN [full_history |-> full_history,
              recent_turns |-> recent_turns,
              summary |-> summary,
              turn_count |-> turn_count,
              calls |-> <<call>>,
              error |-> "ServiceError",
              reply |-> <<>>,
              add_turn_called |-> FALSE]
        ELSE [r EXCEPT !.calls = r.calls \o <<call>>]

\* chat(user_message), the primary call answering reply and the summarization
\* call (if one is made) answering resp.
ChatResult(user_message, reply, resp) ==
    LET context == build_context(summary, recent_turns, user_message)
        call == ServiceCall("generate", "system_prompt", context, reply)
    IN  IF ~reply.ok
        THEN [full_history |-> full_history,
              recent_turns |-> recent_turns,
              summary |-> summary,
              turn_count |-> turn_count,
              calls |-> <<call>>,
              error |-> "ServiceError",
              reply |-> <<>>,
              add_turn_called |-> FALSE]
        ELSE LET model_text == strip(reply.text)
                 r == AddTurnResult(user_message, model_text, resp)
             IN  [r EXCEPT !.calls = <<call>> \o r.calls]

chat(user_message, reply, resp) ==
    Apply("chat", user_message, ChatResult(user_message, reply, resp))

(***************************************************************************)
(* The manager.  __init__ stores its arguments without checking them, so   *)
(* every configuration is one a manager can have.                          *)
(***************************************************************************)
\* The manager after __init__.
ManagerInit ==
    /\ max_recent_turns \in 0..MaxWindow
    /\ summarize_threshold \in 0..MaxThreshold
    /\ full_history = <<>>
    /\ summary = None
    /\ recent_turns = <<>>
    /\ turn_count = 0
    /\ lastOp = [op |-> "__init__", msg |-> <<>>, reply |-> <<>>, error |-> "none",
                 calls |-> <<>>, result |-> <<>>]
    /\ add_turn_calls = 0
    /\ added = <<>>
    /\ ever_exceeded = FALSE
    /\ summarize_calls = 0
    /\ summarize_failed = FALSE

Init ==
    /\ ManagerInit
    /\ CallersIdle
    /\ WindowIdle
    /\ PipelineIdle
    /\ Example4Idle

Next ==
    \/ \E u \in {Question(turn_count + 1)}, m \in ModelResponses(turn_count + 1),
          resp \in SummaryOutcomes(summarize_calls + 1) :
          add_turn(u, m, resp)
    \/ \E u \in UserMessages(turn_count + 1), reply \in ReplyOutcomes(turn_count + 1),
          resp \in SummaryOutcomes(summarize_calls + 1) :
          chat(u, reply, resp)
    \/ \E u \in UserMessages(turn_count + 1) :
          BuildContext(u)

Spec ==
    Init /\ [][Next]_vars

(***************************************************************************)
(* Two callers on one manager.  Nothing in ConversationManager holds a     *)
(* lock, so a second thread may run chat while the first waits inside      *)
(* generate_content.  The callers are interleaved at those two waits only  *)
(* (the primary call of chat, line 455, and the summarization call of      *)
(* _compress, line 407); the statements between two waits run as one step. *)
(* lastOp describes the operations of a single caller and is left alone.   *)
(***************************************************************************)
\* chat up to its wait: build_context, then generate_content is entered.
ChatCall(c, user_message) ==
    /\ callers[c].pc = "idle"
    /\ chats_begun < MaxTurns
    /\ callers' = [callers EXCEPT ![c] =
                     [IdleCaller EXCEPT
                        !.pc = "primary",
                        !.number = chats_begun + 1,
                        !.user_message = user_message,
                        !.context = build_context(summary, recent_turns, user_message)]]
    /\ chats_begun' = chats_begun + 1
    /\ UNCHANGED <<managerVars, folded, windowVars, pipelineVars, example4Vars>>

\* The primary call returns or raises; on a return chat runs add_turn, which
\* appends and, above the threshold, enters _compress up to its wait.
PrimaryReturns(c, reply) ==
    /\ callers[c].pc = "primary"
    /\ IF ~reply.ok
       THEN /\ callers' = [callers EXCEPT ![c] = IdleCaller]
            /\ UNCHANGED <<full_history, recent_turns, turn_count, add_turn_calls,
                           added, ever_exceeded, summarize_calls>>
       ELSE LET user_message == callers[c].user_message
                model_text == strip(reply.text)
                rt == AppendTurn(recent_turns, user_message, model_text)
                to_summarize == ToSummarize(rt, max_recent_turns)
            IN  /\ full_history' = AppendTurn(full_history, user_message, model_text)
                /\ recent_turns' = rt
                /\ turn_count' = turn_count + 1
                /\ add_turn_calls' = add_turn_calls + 1
                /\ added' = Append(added, <<user_message, model_text>>)
                /\ ever_exceeded' =
                     (ever_exceeded \/ NeedsCompress(rt, summarize_threshold))
                /\ IF NeedsCompress(rt, summarize_threshold)
                   THEN /\ callers' = [callers EXCEPT ![c] =
                                         [@ EXCEPT
                                            !.pc = "summarize",
                                            !.to_summarize = to_summarize,
                                            !.to_keep = ToKeep(rt, max_recent_turns),
                                            !.conversation_text =
                                               ConversationText(summary, to_summarize)]]
                        /\ summarize_calls' = summarize_calls + 1
                   ELSE /\ callers' = [callers EXCEPT ![c] = IdleCaller]
                        /\ UNCHANGED summarize_calls
    /\ UNCHANGED <<max_recent_turns, summarize_threshold, summary, lastOp,
                   summarize_failed, chats_begun, folded>>
    /\ UNCHANGED <<windowVars, pipelineVars, example4Vars>>

\* The summarization call returns or raises; on a return _compress assigns
\* summary and the to_keep it computed before the wait.
SummarizeReturns(c, resp) ==
    /\ callers[c].pc = "summarize"
    /\ IF resp.ok
       THEN /\ summary' = Some(strip(resp.text))
            /\ recent_turns' = callers[c].to_keep
            /\ folded' = folded \o callers[c].to_summarize
            /\ UNCHANGED summarize_failed
       ELSE /\ summarize_failed' = TRUE
            /\ UNCHANGED <<summary, recent_turns, folded>>
    /\ callers' = [callers EXCEPT ![c] = IdleCaller]
    /\ UNCHANGED <<max_recent_turns, summarize_threshold, full_history, turn_count,
                   lastOp, add_turn_calls, added, ever_exceeded, summarize_calls,
                   chats_begun>>
    /\ UNCHANGED <<windowVars, pipelineVars, example4Vars>>

NextConcurrent ==
    \/ \E c \in Callers, u \in {Question(chats_begun + 1)} :
          ChatCall(c, u)
    \/ \E c \in Callers : \E reply \in ReplyOutcomes(callers[c].number) :
          PrimaryReturns(c, reply)
    \/ \E c \in Callers : \E resp \in SummaryOutcomes(summarize_calls) :
          SummarizeReturns(c, resp)

SpecConcurrent ==
    Init /\ [][NextConcurrent]_vars

(***************************************************************************)
(* truncate_history (part 2).                                              *)
(***************************************************************************)
\* The k-th message of a conversation like conversation_history: users and
\* the model alternate, every message has its own text.
ConversationMessage(k) ==
    IF k % 2 = 1
    THEN Msg("user", <<"q", DigitChar((k + 1) \div 2)>>)
    ELSE Msg("model", <<"r", DigitChar(k \div 2)>>)

\* The histories a caller passes: a stretch of such a conversation that begins
\* with a user message or (a list cut elsewhere) with a model message.
Histories ==
    {[i \in 1..n |-> ConversationMessage(first + i)] :
        first \in 0..1, n \in 0..MaxHistory}

truncate_history(h, mt) ==
    LET max_messages == mt * 2
    IN  IF Len(h) > max_messages
        THEN PySliceFrom(h, -max_messages)
        ELSE h

InitTruncate ==
    /\ history \in Histories
    /\ max_turns \in 0..MaxKeep
    /\ system_prompt = <<>>
    /\ max_total_tokens = 0
    /\ returned = NotCalled
    /\ NoManager
    /\ CallersIdle
    /\ PipelineIdle
    /\ Example4Idle

TruncateHistory ==
    /\ returned = NotCalled
    /\ returned' = [fn |-> "truncate_history",
                    value |-> truncate_history(history, max_turns),
                    tokens |-> 0]
    /\ UNCHANGED <<history, max_turns, system_prompt, max_total_tokens>>
    /\ UNCHANGED <<managerVars, callerVars, pipelineVars, example4Vars>>

NextTruncate ==
    TruncateHistory

SpecTruncate ==
    InitTruncate /\ [][NextTruncate]_vars

(***************************************************************************)
(* sliding_window_by_tokens (part 3).                                      *)
(***************************************************************************)
\* The text t followed by as many "x" as make it n characters long.
RECURSIVE Padded(_, _)
Padded(t, n) ==
    IF Len(t) >= n THEN t ELSE Padded(Append(t, "x"), n)

\* The lengths (user text, model text) of a turn pair: both below 4
\* characters, one of exactly 4, and longer ones.
PairShapes ==
    {<<3, 3>>, <<4, 3>>, <<5, 8>>}

\* The history whose k-th pair has the lengths shapes[k].
PairHistory(shapes) ==
    [i \in 1..(2 * Len(shapes)) |->
        LET k == (i + 1) \div 2
        IN  IF i % 2 = 1
            THEN Msg("user", Padded(<<"q", DigitChar(k)>>, shapes[k][1]))
            ELSE Msg("model", Padded(<<"r", DigitChar(k)>>, shapes[k][2]))]

PairHistories ==
    UNION {{PairHistory(shapes) : shapes \in [1..n -> PairShapes]} : n \in 0..MaxPairs}

SystemPrompts ==
    {Padded(<<>>, n) : n \in {0, 5, 9}}

RECURSIVE SlidingLoop_SkipsPair(_, _, _, _, _)
SlidingLoop_SkipsPair(h, i, kept, running_tokens, max) ==
    IF i < 0
    THEN [kept |-> kept, running_tokens |-> running_tokens]
    ELSE LET user_msg == h[i + 1]
             model_msg == h[i + 2]
             pair_tokens == Len(user_msg.text) \div 4 + Len(model_msg.text) \div 4
         IN  IF running_tokens + pair_tokens > max
             THEN SlidingLoop_SkipsPair(h, i - 2, kept, running_tokens, max)
             ELSE SlidingLoop_SkipsPair(h, i - 2, <<user_msg, model_msg>> \o kept,
                                        running_tokens + pair_tokens, max)

\* The loop "for i in range(len(history) - 2, -1, -2)" from index i on (i is
\* the 0-based index of the user message), with its break.
RECURSIVE SlidingLoop(_, _, _, _, _)
SlidingLoop(h, i, kept, running_tokens, max) ==
    IF i < 0
    THEN [kept |-> kept, running_tokens |-> running_tokens]
    ELSE LET user_msg == h[i + 1]
             model_msg == h[i + 2]
             pair_tokens == Len(user_msg.text) \div 4 + Len(model_msg.text) \div 4
         IN  IF running_tokens + pair_tokens > max
             THEN [kept |-> kept, running_tokens |-> running_tokens]
             ELSE SlidingLoop(h, i - 2, <<user_msg, model_msg>> \o kept,
                              running_tokens + pair_tokens, max)

sliding_window_by_tokens(h, sp, max) ==
    SlidingLoop(h, Len(h) - 2, <<>>, Len(sp) \div 4, max)

InitSliding ==
    /\ history \in PairHistories
    /\ system_prompt \in SystemPrompts
    /\ max_total_tokens \in 0..MaxBudget
    /\ max_turns = 0
    /\ returned = NotCalled
    /\ NoManager
    /\ CallersIdle
    /\ PipelineIdle
    /\ Example4Idle

SlidingWindowByTokens ==
    /\ returned = NotCalled
    /\ returned' =
         LET r == sliding_window_by_tokens(history, system_prompt, max_total_tokens)
         IN  [fn |-> "sliding_window_by_tokens",
              value |-> r.kept,
              tokens |-> r.running_tokens]
    /\ UNCHANGED <<history, max_turns, system_prompt, max_total_tokens>>
    /\ UNCHANGED <<managerVars, callerVars, pipelineVars, example4Vars>>

NextSliding ==
    SlidingWindowByTokens

SpecSliding ==
    InitSliding /\ [][NextSliding]_vars

(***************************************************************************)
(* run_blog_pipeline (18-prompt-chaining.py, example 3).  One step per     *)
(* statement that calls the hosted model, and one for the gate; the        *)
(* print calls change nothing.                                             *)
(***************************************************************************)
TopicLabel ==
    <<"T", "o", "p", "i", "c", ":", " ">>

KeyPointsLabel ==
    <<"\n", "\n", "K", "e", "y", " ", "p", "o", "i", "n", "t", "s", " ", "t",
      "o", " ", "c", "o", "v", "e", "r", ":", "\n">>

BlogPostDraftLabel ==
    <<"B", "l", "o", "g", " ", "p", "o", "s", "t", " ", "d", "r", "a", "f",
      "t", ":", "\n", "\n">>

OriginalDraftLabel ==
    <<"O", "r", "i", "g", "i", "n", "a", "l", " ", "d", "r", "a", "f", "t",
      ":", "\n", "\n">>

EditorFeedbackLabel ==
    <<"\n", "\n", "E", "d", "i", "t", "o", "r", " ", "f", "e", "e", "d", "b",
      "a", "c", "k", ":", "\n", "\n">>

RewriteInstruction ==
    <<"\n", "\n", "R", "e", "w", "r", "i", "t", "e", " ", "t", "h", "e", " ",
      "d", "r", "a", "f", "t", " ", "i", "n", "c", "o", "r", "p", "o", "r",
      "a", "t", "i", "n", "g", " ", "a", "l", "l", " ", "f", "e", "e", "d",
      "b", "a", "c", "k", " ", "a", "b", "o", "v", "e", ".">>

ChainStoppedOpen ==
    <<"C", "H", "A", "I", "N", " ", "S", "T", "O", "P", "P", "E", "D", " ",
      "a", "t", " ", "g", "a", "t", "e", ":", " ", "o", "n", "l", "y", " ">>

ChainStoppedClose ==
    <<" ", "k", "e", "y", " ", "p", "o", "i", "n", "t", "s", " ", "e", "x",
      "t", "r", "a", "c", "t", "e", "d", ".">>

\* The texts the hosted model returns: for step 1 a numbered list of two
\* points (also indented, with an empty line), of one point, a bulleted list,
\* nothing, a sentence that begins with a digit, and a list after a heading.
Topics ==
    {<<"t", "1">>, <<"t", "2">>}

KeyPointTexts ==
    {<<"1", ".", " ", "a", "\n", "2", ".", " ", "b">>,
     <<" ", "1", ".", " ", "a", "\n", "\n", " ", "2", ".", " ", "b", "\n">>,
     <<"1", ".", " ", "a">>,
     <<"-", " ", "a", "\n", "-", " ", "b">>,
     <<>>,
     <<"3", " ", "t", "h", "i", "n", "g", "s", ":", "\n", "-", " ", "a">>,
     <<"a", "\n", "1", ".", " ", "b", "\n", "2", ".", " ", "c", "\n", "3", ".", " ", "d">>}

DraftTexts ==
    {<<"d", "1">>, <<"d", "2">>}

CritiqueTexts ==
    {<<"1", ".", " ", "c">>, <<"c", "2">>}

FinalTexts ==
    {<<"f", "1">>, <<"f", "2">>}

\* What call_gemini does for one call: it returns one of texts, or raises.
LlmOutcomes(texts) ==
    {ServiceFailure} \cup {[ok |-> TRUE, text |-> t] : t \in texts}

\* One call of call_gemini as a recording double sees it.
LlmCall(system, user_message, resp) ==
    [system |-> system, user_message |-> user_message,
     ok |-> resp.ok, text |-> resp.text]

IsDigit(c) ==
    c \in {"0", "1", "2", "3", "4", "5", "6", "7", "8", "9"}

\* The characters of t before its first "\n".
RECURSIVE FirstLine(_)
FirstLine(t) ==
    IF Len(t) = 0 \/ Head(t) = "\n" THEN <<>>
    ELSE <<Head(t)>> \o FirstLine(Tail(t))

\* text.split("\n")
RECURSIVE split(_)
split(t) ==
    LET l == FirstLine(t)
    IN  IF Len(l) = Len(t) THEN <<l>>
        ELSE <<l>> \o split(SubSeq(t, Len(l) + 2, Len(t)))

count_points(text) ==
    LET raw == split(strip(text))
        stripped == [i \in 1..Len(raw) |-> strip(raw[i])]
        lines == SelectSeq(stripped, LAMBDA line : Len(line) > 0)
        numbered == SelectSeq(lines, LAMBDA line : Len(line) > 0 /\ IsDigit(line[1]))
    IN  Len(numbered)

InitPipeline ==
    /\ pipeline_pc = "extract"
    /\ topic \in Topics
    /\ key_points = <<>>
    /\ draft = <<>>
    /\ critique = <<>>
    /\ final = <<>>
    /\ llm_calls = <<>>
    /\ pipeline_returned = <<>>
    /\ NoManager
    /\ CallersIdle
    /\ WindowIdle
    /\ Example4Idle

\* Step 1: key_points = call_gemini(EXTRACT_SYSTEM_V2, f"Topic: {topic}")
Extract(resp) ==
    /\ pipeline_pc = "extract"
    /\ llm_calls' = Append(llm_calls,
                           LlmCall("EXTRACT_SYSTEM_V2", TopicLabel \o topic, resp))
    /\ IF resp.ok
       THEN key_points' = resp.text /\ pipeline_pc' = "gate"
       ELSE key_points' = key_points /\ pipeline_pc' = "raised"
    /\ UNCHANGED <<topic, draft, critique, final, pipeline_returned>>
    /\ UNCHANGED <<managerVars, callerVars, windowVars, example4Vars>>

Gate_LetsOnePointPass ==
    /\ pipeline_pc = "gate"
    /\ LET point_count == count_points(key_points)
       IN  IF point_count < 1
           THEN /\ pipeline_returned' =
                     ChainStoppedOpen \o <<DigitChar(point_count)>> \o ChainStoppedClose
                /\ pipeline_pc' = "returned"
           ELSE /\ pipeline_returned' = pipeline_returned
                /\ pipeline_pc' = "draft"
    /\ UNCHANGED <<topic, key_points, draft, critique, final, llm_calls>>
    /\ UNCHANGED <<managerVars, callerVars, windowVars, example4Vars>>

\* The gate: point_count = count_points(key_points); below 2 the function
\* returns the message (point_count is then one digit).
Gate ==
    /\ pipeline_pc = "gate"
    /\ LET point_count == count_points(key_points)
       IN  IF point_count < 2
           THEN /\ pipeline_returned' =
                     ChainStoppedOpen \o <<DigitChar(point_count)>> \o ChainStoppedClose
                /\ pipeline_pc' = "returned"
           ELSE /\ pipeline_returned' = pipeline_returned
                /\ pipeline_pc' = "draft"
    /\ UNCHANGED <<topic, key_points, draft, critique, final, llm_calls>>
    /\ UNCHANGED <<managerVars, callerVars, windowVars, example4Vars>>

\* Step 2: draft = call_gemini(DRAFT_SYSTEM_V2, topic and key points)
Draft(resp) ==
    /\ pipeline_pc = "draft"
    /\ llm_calls' = Append(llm_calls,
                           LlmCall("DRAFT_SYSTEM_V2",
                                   TopicLabel \o topic \o KeyPointsLabel \o key_points,
                                   resp))
    /\ IF resp.ok
       THEN draft' = resp.text /\ pipeline_pc' = "critique"
       ELSE draft' = draft /\ pipeline_pc' = "raised"
    /\ UNCHANGED <<topic, key_points, critique, final, pipeline_returned>>
    /\ UNCHANGED <<managerVars, callerVars, windowVars, example4Vars>>

Critique_SeesKeyPoints(resp) ==
    /\ pipeline_pc = "critique"
    /\ llm_calls' = Append(llm_calls,
                           LlmCall("CRITIQUE_SYSTEM",
                                   BlogPostDraftLabel \o draft \o KeyPointsLabel
                                     \o key_points,
                                   resp))
    /\ IF resp.ok
       THEN critique' = resp.text /\ pipeline_pc' = "polish"
       ELSE critique' = critique /\ pipeline_pc' = "raised"
    /\ UNCHANGED <<topic, key_points, draft, final, pipeline_returned>>
    /\ UNCHANGED <<managerVars, callerVars, windowVars, example4Vars>>

\* Step 3: critique = call_gemini(CRITIQUE_SYSTEM, the draft)
Critique(resp) ==
    /\ pipeline_pc = "critique"
    /\ llm_calls' = Append(llm_calls,
                           LlmCall("CRITIQUE_SYSTEM", BlogPostDraftLabel \o draft, resp))
    /\ IF resp.ok
       THEN critique' = resp.text /\ pipeline_pc' = "polish"
       ELSE critique' = critique /\ pipeline_pc' = "raised"
    /\ UNCHANGED <<topic, key_points, draft, final, pipeline_returned>>
    /\ UNCHANGED <<managerVars, callerVars, windowVars, example4Vars>>

\* Step 4: final = call_gemini(POLISH_SYSTEM, draft and critique); return final
Polish(resp) ==
    /\ pipeline_pc = "polish"
    /\ llm_calls' = Append(llm_calls,
                           LlmCall("POLISH_SYSTEM",
                                   OriginalDraftLabel \o draft \o EditorFeedbackLabel
                                     \o critique \o RewriteInstruction,
                                   resp))
    /\ IF resp.ok
       THEN /\ final' = resp.text
            /\ pipeline_returned' = resp.text
            /\ pipeline_pc' = "returned"
       ELSE /\ final' = final
            /\ pipeline_returned' = pipeline_returned
            /\ pipeline_pc' = "raised"
    /\ UNCHANGED <<topic, key_points, draft, critique>>
    /\ UNCHANGED <<managerVars, callerVars, windowVars, example4Vars>>

NextPipeline ==
    \/ \E resp \in LlmOutcomes(KeyPointTexts) : Extract(resp)
    \/ Gate
    \/ \E resp \in LlmOutcomes(DraftTexts) : Draft(resp)
    \/ \E resp \in LlmOutcomes(CritiqueTexts) : Critique(resp)
    \/ \E resp \in LlmOutcomes(FinalTexts) : Polish(resp)

SpecPipeline ==
    InitPipeline /\ [][NextPipeline]_vars

(***************************************************************************)
(* Example 4: the chain with the JSON gate                                 *)
(***************************************************************************)
topic4 ==
    <<"C", "o", "n", "t", "e", "x", "t", " ", "w", "i", "n", "d", "o", "w",
      "s", " ", "a", "n", "d", " ", "w", "h", "y", " ", "t", "h", "e", "y",
      " ", "m", "a", "t", "t", "e", "r", " ", "f", "o", "r", " ", "L", "L",
      "M", " ", "a", "p", "p", "l", "i", "c", "a", "t", "i", "o", "n", "s">>

KeyPointsToCoverLabel ==
    <<"\n", "K", "e", "y", " ", "p", "o", "i", "n", "t", "s", " ", "t", "o",
      " ", "c", "o", "v", "e", "r", ":", " ">>

TargetAudienceLabel ==
    <<"\n", "T", "a", "r", "g", "e", "t", " ", "a", "u", "d", "i", "e", "n",
      "c", "e", ":", " ">>

ToneLabel ==
    <<"\n", "T", "o", "n", "e", ":", " ">>

\* The character U+0060 (a string of this module cannot hold it) and the
\* markdown fence made of three.
Backtick ==
    "GRAVE ACCENT"

Fence ==
    <<Backtick, Backtick, Backtick>>

\* What the extraction step may answer, before any fencing: the object asked
\* for, objects with keys missing or values of other types, JSON that is no
\* object, an explanation around the JSON, a cut-off object, trailing text,
\* and nothing.  (No text holds a backslash: escapes are not modelled.)
JsonPayloads ==
    {<<"{", "\"", "k", "e", "y", "_", "p", "o", "i", "n", "t", "s", "\"", ":",
       " ", "[", "\"", "a", "\"", ",", " ", "\"", "b", "\"", "]", ",", " ",
       "\"", "a", "u", "d", "i", "e", "n", "c", "e", "\"", ":", " ", "\"",
       "d", "\"", ",", " ", "\"", "t", "o", "n", "e", "\"", ":", " ", "\"",
       "t", "\"", "}">>,
     <<"{", "\"", "k", "e", "y", "_", "p", "o", "i", "n", "t", "s", "\"", ":",
       " ", "[", "\"", "a", "\"", "]", "}">>,
     <<"{", "}">>,
     <<"{", "\"", "k", "e", "y", "_", "p", "o", "i", "n", "t", "s", "\"", ":",
       " ", "\"", "a", "b", "\"", ",", " ", "\"", "t", "o", "n", "e", "\"",
       ":", " ", "3", "}">>,
     <<"{", "\"", "k", "e", "y", "_", "p", "o", "i", "n", "t", "s", "\"", ":",
       " ", "3", "}">>,
     <<"{", "\"", "k", "e", "y", "_", "p", "o", "i", "n", "t", "s", "\"", ":",
       " ", "[", "\"", "a", "\"", ",", " ", "2", "]", ",", " ", "\"", "a",
       "u", "d", "i", "e", "n", "c", "e", "\"", ":", " ", "[", "\"", "x",
       "\"", "]", "}">>,
     <<"[", "\"", "a", "\"", ",", " ", "\"", "b", "\"", "]">>,
     <<"\"", "a", "\"">>,
     <<"4", "2">>,
     <<"n", "u", "l", "l">>,
     <<"H", "e", "r", "e", ":", " ", "{", "\"", "t", "o", "n", "e", "\"", ":",
       " ", "\"", "t", "\"", "}">>,
     <<"{", "\"", "t", "o", "n", "e", "\"", ":", " ", "\"", "t", "\"">>,
     <<"{", "\"", "t", "o", "n", "e", "\"", ":", " ", "\"", "t", "\"", "}",
       " ", "o", "k">>,
     <<>>}

Wrappings ==
    {"plain", "spaces", "fenced", "fenced, one line", "fence not closed",
     "fenced, newline after"}

\* The payload as the model wraps it: as it is, between white space, or in
\* markdown fencing with or without line breaks and closing fence.
Wrap(w, p) ==
    CASE w = "plain" -> p
      [] w = "spaces" -> <<" ">> \o p \o <<"\n">>
      [] w = "fenced" ->
           Fence \o <<"j", "s", "o", "n", "\n">> \o p \o <<"\n">> \o Fence
      [] w = "fenced, one line" -> Fence \o p \o Fence
      [] w = "fence not closed" -> Fence \o <<"j", "s", "o", "n", "\n">> \o p
      [] w = "fenced, newline after" ->
           Fence \o <<"j", "s", "o", "n", "\n">> \o p \o <<"\n">> \o Fence \o <<"\n">>

RawJsonTexts ==
    {Wrap(w, p) : w \in Wrappings, p \in JsonPayloads}

DraftTexts4 ==
    {<<"d", "4">>}

\* cleaned.startswith(prefix)
startswith(t, prefix) ==
    Len(t) >= Len(prefix) /\ SubSeq(t, 1, Len(prefix)) = prefix

\* t.split("\n", 1): one piece when t has no "\n", else the text before the
\* first "\n" and the text after it.
SplitOnce(t) ==
    LET l == FirstLine(t)
    IN  IF Len(l) = Len(t) THEN <<t>>
        ELSE <<l, SubSeq(t, Len(l) + 2, Len(t))>>

\* t.rsplit(sep, 1)[0]: the text before the last sep in t, t when it has none.
RSplitFirst(t, sep) ==
    LET at == {i \in 1..(Len(t) - Len(sep) + 1) : SubSeq(t, i, i + Len(sep) - 1) = sep}
    IN  IF at = {} THEN t
        ELSE SubSeq(t, 1, (CHOOSE i \in at : \A j \in at : j <= i) - 1)

\* A value json.loads builds: a str (its characters), an int, bool or None
\* (as Python prints it), a list (its values) or a dict (its <<key, value>>
\* pairs in order).
JsonValue(type, value) ==
    [type |-> type, value |-> value]

JsonWhitespace ==
    {" ", "\t", "\n", "\r"}

RECURSIVE SkipWhitespace(_)
SkipWhitespace(t) ==
    IF Len(t) > 0 /\ Head(t) \in JsonWhitespace
    THEN SkipWhitespace(Tail(t))
    ELSE t

\* The outcome of scanning one value: the value and the text after it, or no
\* value (the decoder raises JSONDecodeError).
NoValue ==
    [ok |-> FALSE, value |-> JsonValue("none", <<>>), rest |-> <<>>]

Scanned(v, rest) ==
    [ok |-> TRUE, value |-> v, rest |-> rest]

\* A string after its opening quote: up to the closing quote; a control
\* character or the end of the text before it is an error.
RECURSIVE ScanString(_, _)
ScanString(t, acc) ==
    IF Len(t) = 0 \/ Head(t) \in {"\n", "\t", "\r"} THEN NoValue
    ELSE IF Head(t) = "\"" THEN Scanned(JsonValue("str", acc), Tail(t))
    ELSE ScanString(Tail(t), Append(acc, Head(t)))

\* The digits t begins with.
RECURSIVE Digits(_)
Digits(t) ==
    IF Len(t) > 0 /\ IsDigit(Head(t)) THEN <<Head(t)>> \o Digits(Tail(t)) ELSE <<>>

\* An integer: an optional minus, then 0 or a run of digits not starting with
\* 0 (the numbers of the texts have no fraction and no exponent).
ScanNumber(t) ==
    LET sign == IF Head(t) = "-" THEN <<"-">> ELSE <<>>
        u == SubSeq(t, Len(sign) + 1, Len(t))
        d == IF Len(u) > 0 /\ Head(u) = "0" THEN <<"0">> ELSE Digits(u)
    IN  IF Len(d) = 0 THEN NoValue
        ELSE Scanned(JsonValue("int", sign \o d),
                     SubSeq(u, Len(d) + 1, Len(u)))

JsonLiterals ==
    {[json |-> <<"n", "u", "l", "l">>, type |-> "NoneType",
      value |-> <<"N", "o", "n", "e">>],
     [json |-> <<"t", "r", "u", "e">>, type |-> "bool",
      value |-> <<"T", "r", "u", "e">>],
     [json |-> <<"f", "a", "l", "s", "e">>, type |-> "bool",
      value |-> <<"F", "a", "l", "s", "e">>]}

RECURSIVE ScanValue(_)
RECURSIVE ScanElements(_, _)
RECURSIVE ScanMembers(_, _)
\* One JSON value at the start of t, white space before it skipped.
ScanValue(t0) ==
    LET t == SkipWhitespace(t0)
    IN  IF Len(t) = 0 THEN NoValue
        ELSE IF Head(t) = "\"" THEN ScanString(Tail(t), <<>>)
        ELSE IF Head(t) = "[" THEN
            LET r == SkipWhitespace(Tail(t))
            IN  IF Len(r) > 0 /\ Head(r) = "]"
                THEN Scanned(JsonValue("list", <<>>), Tail(r))
                ELSE ScanElements(r, <<>>)
        ELSE IF Head(t) = "{" THEN
            LET r == SkipWhitespace(Tail(t))
            IN  IF Len(r) > 0 /\ Head(r) = "}"
                THEN Scanned(JsonValue("dict", <<>>), Tail(r))
                ELSE ScanMembers(r, <<>>)
        ELSE IF IsDigit(Head(t)) \/ Head(t) = "-" THEN ScanNumber(t)
        ELSE IF \E l \in JsonLiterals : startswith(t, l.json) THEN
            LET l == CHOOSE l \in JsonLiterals : startswith(t, l.json)
            IN  Scanned(JsonValue(l.type, l.value),
                        SubSeq(t, Len(l.json) + 1, Len(t)))
        ELSE NoValue

\* The elements of a list from the start of one element to the closing "]".
ScanElements(t, acc) ==
    LET e == ScanValue(t)
        r == SkipWhitespace(e.rest)
    IN  IF ~e.ok \/ Len(r) = 0 THEN NoValue
        ELSE IF Head(r) = "," THEN ScanElements(Tail(r), Append(acc, e.value))
        ELSE IF Head(r) = "]"
             THEN Scanned(JsonValue("list", Append(acc, e.value)), Tail(r))
        ELSE NoValue

\* The members of an object from the start of one key to the closing "}".
ScanMembers(t, acc) ==
    LET k == SkipWhitespace(t)
        key == IF Len(k) > 0 /\ Head(k) = "\"" THEN ScanString(Tail(k), <<>>)
               ELSE NoValue
        c == SkipWhitespace(key.rest)
        v == IF key.ok /\ Len(c) > 0 /\ Head(c) = ":" THEN ScanValue(Tail(c))
             ELSE NoValue
        r == SkipWhitespace(v.rest)
        members == Append(acc, <<key.value.value, v.value>>)
    IN  IF ~v.ok \/ Len(r) = 0 THEN NoValue
        ELSE IF Head(r) = "," THEN ScanMembers(Tail(r), members)
        ELSE IF Head(r) = "}" THEN Scanned(JsonValue("dict", members), Tail(r))
        ELSE NoValue

\* json.loads(s): the value when s is one JSON value between white space,
\* else JSONDecodeError.
json_loads(s) ==
    LET v == ScanValue(s)
    IN  IF v.ok /\ SkipWhitespace(v.rest) = <<>>
        THEN [ok |-> TRUE, value |-> v.value]
        ELSE [ok |-> FALSE, value |-> v.value]

\* metadata.get(key, default) of a dict (the last member of that key).
Get(d, key, default) ==
    LET at == {i \in 1..Len(d.value) : d.value[i][1] = key}
    IN  IF at = {} THEN default
        ELSE d.value[CHOOSE i \in at : \A j \in at : j <= i][2]

\* sep.join(texts)
RECURSIVE JoinTexts(_, _)
JoinTexts(texts, sep) ==
    IF Len(texts) = 0 THEN <<>>
    ELSE IF Len(texts) = 1 THEN texts[1]
    ELSE texts[1] \o sep \o JoinTexts(Tail(texts), sep)

\* ', '.join(v): the items of a list when all are str, the characters of a
\* str, the keys of a dict; TypeError for anything else.
Join(v) ==
    LET sep == <<",", " ">>
    IN  CASE v.type = "list" ->
               IF \A i \in 1..Len(v.value) : v.value[i].type = "str"
               THEN [ok |-> TRUE,
                     text |-> JoinTexts([i \in 1..Len(v.value) |-> v.value[i].value], sep)]
               ELSE [ok |-> FALSE, text |-> <<>>]
          [] v.type = "str" ->
               [ok |-> TRUE,
                text |-> JoinTexts([i \in 1..Len(v.value) |-> <<v.value[i]>>], sep)]
          [] v.type = "dict" ->
               [ok |-> TRUE,
                text |-> JoinTexts([i \in 1..Len(v.value) |-> v.value[i][1]], sep)]
          [] OTHER -> [ok |-> FALSE, text |-> <<>>]

\* repr(v) and str(v), as an f-string formats a value.
RECURSIVE PyRepr(_)
PyRepr(v) ==
    CASE v.type = "str" -> <<"'">> \o v.value \o <<"'">>
      [] v.type = "list" ->
           <<"[">>
           \o JoinTexts([i \in 1..Len(v.value) |-> PyRepr(v.value[i])], <<",", " ">>)
           \o <<"]">>
      [] v.type = "dict" ->
           <<"{">>
           \o JoinTexts([i \in 1..Len(v.value) |->
                           <<"'">> \o v.value[i][1] \o <<"'", ":", " ">>
                           \o PyRepr(v.value[i][2])],
                        <<",", " ">>)
           \o <<"}">>
      [] OTHER -> v.value

PyStr(v) ==
    IF v.type = "str" THEN v.value ELSE PyRepr(v)

Raised(exception, at) ==
    [exception |-> exception, at |-> at]

InitJsonGate ==
    /\ example4_pc = "step 1"
    /\ raw_json = None
    /\ metadata = None
    /\ gate_passed = None
    /\ draft4 = None
    /\ example4_calls = <<>>
    /\ escaped = NotRaised
    /\ NoManager
    /\ CallersIdle
    /\ WindowIdle
    /\ PipelineIdle

\* Step 1: raw_json = call_gemini(JSON_EXTRACT_SYSTEM, f"Topic: {topic4}")
ExtractJson(resp) ==
    /\ example4_pc = "step 1"
    /\ example4_calls' =
         Append(example4_calls,
                LlmCall("JSON_EXTRACT_SYSTEM", TopicLabel \o topic4, resp))
    /\ IF resp.ok
       THEN /\ raw_json' = Some(resp.text)
            /\ example4_pc' = "gate"
            /\ escaped' = escaped
       ELSE /\ raw_json' = raw_json
            /\ example4_pc' = "raised"
            /\ escaped' = Raised("ServiceError", "step 1")
    /\ UNCHANGED <<metadata, gate_passed, draft4>>
    /\ UNCHANGED <<managerVars, callerVars, windowVars, pipelineVars>>

\* What the try block does to the text raw: the exception it raises, if any,
\* and the value json.loads returned, if it returned.
TryParse(raw) ==
    LET stripped == strip(raw)
        fenced == startswith(stripped, Fence)
        pieces == SplitOnce(stripped)
        cleaned == IF fenced THEN strip(RSplitFirst(pieces[2], Fence)) ELSE stripped
        loaded == json_loads(cleaned)
    IN  IF fenced /\ Len(pieces) < 2
        THEN [exception |-> "IndexError", metadata |-> None]
        ELSE IF ~loaded.ok
        THEN [exception |-> "JSONDecodeError", metadata |-> None]
        ELSE IF loaded.value.type # "dict"
        THEN [exception |-> "AttributeError", metadata |-> Some(loaded.value)]
        ELSE [exception |-> "none", metadata |-> Some(loaded.value)]

\* The gate: the try block, its "except json.JSONDecodeError", and the else
\* branch of "if gate_passed" (the chain stops); any other exception ends the
\* script.
JsonGate ==
    /\ example4_pc = "gate"
    /\ LET t == TryParse(raw_json[1])
       IN  /\ metadata' = IF t.metadata # None THEN t.metadata ELSE metadata
           /\ gate_passed' = CASE t.exception = "none" -> Some(TRUE)
                               [] t.exception = "JSONDecodeError" -> Some(FALSE)
                               [] OTHER -> gate_passed
           /\ example4_pc' = CASE t.exception = "none" -> "step 2"
                               [] t.exception = "JSONDecodeError" -> "ended"
                               [] OTHER -> "raised"
           /\ escaped' = IF t.exception \in {"none", "JSONDecodeError"}
                         THEN escaped
                         ELSE Raised(t.exception, "gate")
    /\ UNCHANGED <<raw_json, draft4, example4_calls>>
    /\ UNCHANGED <<managerVars, callerVars, windowVars, pipelineVars>>

\* Step 2: formatted_input from the metadata, then
\* draft4 = call_gemini(TARGETED_DRAFT_SYSTEM, formatted_input)
TargetedDraft(resp) ==
    /\ example4_pc = "step 2"
    /\ LET points == Join(Get(metadata[1], <<"k", "e", "y", "_", "p", "o", "i", "n", "t", "s">>,
                              JsonValue("list", <<>>)))
           audience == Get(metadata[1], <<"a", "u", "d", "i", "e", "n", "c", "e">>,
                           JsonValue("str", <<"g", "e", "n", "e", "r", "a", "l">>))
           tone == Get(metadata[1], <<"t", "o", "n", "e">>,
                       JsonValue("str", <<"n", "e", "u", "t", "r", "a", "l">>))
           formatted_input ==
               TopicLabel \o topic4
               \o KeyPointsToCoverLabel \o points.text
               \o TargetAudienceLabel \o PyStr(audience)
               \o ToneLabel \o PyStr(tone)
       IN  IF ~points.ok
           THEN /\ escaped' = Raised("TypeError", "step 2")
                /\ example4_pc' = "raised"
                /\ UNCHANGED <<draft4, example4_calls>>
           ELSE /\ example4_calls' =
                     Append(example4_calls,
                            LlmCall("TARGETED_DRAFT_SYSTEM", formatted_input, resp))
                /\ IF resp.ok
                   THEN /\ draft4' = Some(resp.text)
                        /\ example4_pc' = "ended"
                        /\ escaped' = escaped
                   ELSE /\ draft4' = draft4
                        /\ example4_pc' = "raised"
                        /\ escaped' = Raised("ServiceError", "step 2")
    /\ UNCHANGED <<raw_json, metadata, gate_passed>>
    /\ UNCHANGED <<managerVars, callerVars, windowVars, pipelineVars>>

NextJsonGate ==
    \/ \E resp \in LlmOutcomes(RawJsonTexts) : ExtractJson(resp)
    \/ JsonGate
    \/ \E resp \in LlmOutcomes(DraftTexts4) : TargetedDraft(resp)

SpecJsonGate ==
    InitJsonGate /\ [][NextJsonGate]_vars

(***************************************************************************)
(* Vocabulary of the properties.                                           *)
(***************************************************************************)
\* The configurations the specification allows: 0 < window < threshold.
ValidConfig ==
    /\ max_recent_turns > 0
    /\ summarize_threshold > 0
    /\ summarize_threshold > max_recent_turns

\* The messages of a sequence of (user, assistant) turns, oldest first.
RECURSIVE Flatten(_)
Flatten(turns) ==
    IF Len(turns) = 0 THEN <<>>
    ELSE <<Msg("user", Head(turns)[1]), Msg("model", Head(turns)[2])>>
         \o Flatten(Tail(turns))

StartsWith(t, prefix) ==
    Len(t) >= Len(prefix) /\ SubSeq(t, 1, Len(prefix)) = prefix

\* The last k elements of L, for 0 <= k <= Len(L).
LastOf(L, k) ==
    SubSeq(L, Len(L) - k + 1, Len(L))

SummarizeCallsIn(op) ==
    SelectSeq(op.calls, LAMBDA c : c.kind = "summarize")

PrimaryFailed(op) ==
    /\ op.op = "chat"
    /\ Len(op.calls) > 0
    /\ op.calls[1].kind = "generate"
    /\ ~op.calls[1].ok

\* This step ran add_turn (called directly, or by chat).
AddTurnStep ==
    add_turn_calls' = add_turn_calls + 1

\* The turn this step's add_turn was given.
NewTurn ==
    <<Msg("user", lastOp'.msg), Msg("model", lastOp'.reply)>>

\* This step's add_turn found len(recent_turns) > threshold after appending.
ExceedsAfterAppend ==
    (Len(recent_turns) + 2) \div 2 > summarize_threshold

(***************************************************************************)
(* C1.  Whenever add_turn finds more turns than the threshold after        *)
(* appending and the summarization succeeds, recent_turns afterwards has   *)
(* exactly recent_window_size turns, they are the most recent ones in      *)
(* their order, and previous_length - recent_window_size turns were        *)
(* removed from the front.                                                 *)
(***************************************************************************)
C1_CompressPostcondition ==
    [][(AddTurnStep /\ ExceedsAfterAppend /\ lastOp'.error = "none")
        => LET before == recent_turns \o NewTurn
           IN  /\ Len(recent_turns') = 2 * max_recent_turns
               /\ recent_turns' = LastOf(before, 2 * max_recent_turns)
               /\ (Len(before) - Len(recent_turns')) \div 2
                    = Len(before) \div 2 - max_recent_turns]_vars

\* C1 restricted to the configurations of ValidConfig, where it holds.
C1_CompressPostconditionValidConfig ==
    [][(ValidConfig /\ AddTurnStep /\ ExceedsAfterAppend /\ lastOp'.error = "none")
        => LET before == recent_turns \o NewTurn
           IN  /\ Len(recent_turns') = 2 * max_recent_turns
               /\ recent_turns' = LastOf(before, 2 * max_recent_turns)
               /\ (Len(before) - Len(recent_turns')) \div 2
                    = Len(before) \div 2 - max_recent_turns]_vars

(***************************************************************************)
(* C2.  When the summarization call inside _compress fails, the failure    *)
(* leaves add_turn (and chat) as an error, recent_turns is its content     *)
(* before the call with the new turn appended and nothing removed, and     *)
(* summary is unchanged.                                                   *)
(***************************************************************************)
SummarizationFailed(op) ==
    \E i \in 1..Len(op.calls) :
        op.calls[i].kind = "summarize" /\ ~op.calls[i].ok

C2_FailedSummarizationIsAtomic ==
    [][(AddTurnStep /\ SummarizationFailed(lastOp'))
        => /\ lastOp'.error = "ServiceError"
           /\ recent_turns' = recent_turns \o NewTurn
           /\ summary' = summary]_vars

C2_Witness ==
    /\ lastOp.op = "chat"
    /\ SummarizationFailed(lastOp)
    /\ lastOp.error = "ServiceError"
    /\ summary # None
    /\ Len(recent_turns) \div 2 > summarize_threshold
    /\ ValidConfig

(***************************************************************************)
(* C3.  When the primary completion call of chat fails, chat makes no      *)
(* second call, add_turn does not run, and recent_turns, summary and       *)
(* total_turn_count (with the rest of the fields) are what they were; a    *)
(* retry of the same chat that succeeds records the turn exactly once.     *)
(***************************************************************************)
C3_FailedChatChangesNothing ==
    [][/\ PrimaryFailed(lastOp')
          => /\ UNCHANGED fields
             /\ add_turn_calls' = add_turn_calls
             /\ Len(lastOp'.calls) = 1
             /\ lastOp'.error = "ServiceError"
       /\ (/\ PrimaryFailed(lastOp)
           /\ lastOp'.op = "chat"
           /\ lastOp'.msg = lastOp.msg
           /\ lastOp'.calls[1].ok)
          => /\ add_turn_calls' = add_turn_calls + 1
             /\ turn_count' = turn_count + 1
             /\ added' = Append(added, <<lastOp.msg, lastOp'.reply>>)
             /\ full_history' = full_history \o NewTurn]_vars

C3_Witness ==
    /\ ValidConfig
    /\ PrimaryFailed(lastOp)
    /\ lastOp.error = "ServiceError"
    /\ turn_count >= 2
    /\ summary # None
    /\ Len(recent_turns) > 0

(***************************************************************************)
(* C4.  As long as no add_turn has found more turns than the threshold,    *)
(* recent_turns is exactly the sequence of turns added to the fresh        *)
(* manager, in order, summary is None and no summarization call was made.  *)
(***************************************************************************)
C4_AppendOnlyBelowThreshold ==
    ~ever_exceeded
        => /\ recent_turns = Flatten(added)
           /\ summary = None
           /\ summarize_calls = 0

C4_Witness ==
    /\ ValidConfig
    /\ ~ever_exceeded
    /\ Len(added) = 4
    /\ summarize_threshold = 4
    /\ Len(recent_turns) = 8

(***************************************************************************)
(* C5.  For every compression after the first, the text sent to the        *)
(* summarization call carries, as its "Previous summary: " prefix, the     *)
(* summary the preceding compression produced, whatever text that was;     *)
(* and summary is replaced only by a compression whose input contained     *)
(* the summary it replaces.  (Stated for the configurations of            *)
(* ValidConfig, where it already fails.)                                   *)
(***************************************************************************)
PreviousSummaryPrefix(s) ==
    PreviousSummaryLabel \o s[1] \o <<"\n", "\n">>

C5_PreviousSummaryAlwaysSent ==
    [][/\ \A i \in 1..Len(lastOp'.calls) :
            (/\ ValidConfig
             /\ AddTurnStep
             /\ lastOp'.calls[i].kind = "summarize"
             /\ summary # None)
            => StartsWith(lastOp'.calls[i].contents, PreviousSummaryPrefix(summary))
       /\ (ValidConfig /\ summary' # summary)
          => /\ AddTurnStep
             /\ \E i \in 1..Len(lastOp'.calls) :
                   /\ lastOp'.calls[i].kind = "summarize"
                   /\ lastOp'.calls[i].ok
                   /\ summary # None
                      => StartsWith(lastOp'.calls[i].contents,
                                    PreviousSummaryPrefix(summary))]_vars

\* C5 as amended: the prefix is sent whenever the preceding summary is a
\* non-empty text; after a summarization that returned only whitespace the
\* summary is "" and the transcript carries no prefix.
C5_NonEmptyPreviousSummarySent ==
    [][/\ \A i \in 1..Len(lastOp'.calls) :
            (AddTurnStep /\ lastOp'.calls[i].kind = "summarize" /\ summary # None)
            => IF Len(summary[1]) > 0
               THEN StartsWith(lastOp'.calls[i].contents, PreviousSummaryPrefix(summary))
               ELSE ~StartsWith(lastOp'.calls[i].contents, PreviousSummaryLabel)
       /\ summary' # summary
          => /\ AddTurnStep
             /\ \E i \in 1..Len(lastOp'.calls) :
                   /\ lastOp'.calls[i].kind = "summarize"
                   /\ lastOp'.calls[i].ok
                   /\ (summary # None /\ Len(summary[1]) > 0)
                      => StartsWith(lastOp'.calls[i].contents,
                                    PreviousSummaryPrefix(summary))]_vars

C5_Witness ==
    /\ ValidConfig
    /\ summarize_calls >= 2
    /\ summary = Some(<<"s", "2">>)
    /\ \E i \in 1..Len(lastOp.calls) :
          /\ lastOp.calls[i].kind = "summarize"
          /\ lastOp.calls[i].ok
          /\ StartsWith(lastOp.calls[i].contents, PreviousSummaryPrefix(Some(<<"s", "1">>)))

(***************************************************************************)
(* C6.  build_context(new_message) is, in this order: the synthetic        *)
(* summary message and its acknowledgment if a summary is set, every       *)
(* message of recent_turns, and the new user message last; with a summary  *)
(* and 2 recent turns that is 7 messages, and on a fresh manager it is     *)
(* the new message alone.  (Stated for the configurations of ValidConfig,  *)
(* where it already fails.)                                                *)
(***************************************************************************)
\* What the claim describes, the summary pair being present when present holds.
ContextIs(r, present, new_message) ==
    LET k == IF present THEN 2 ELSE 0
    IN  /\ Len(r) = k + Len(recent_turns) + 1
        /\ present
           => /\ r[1] = Msg("user", SummaryOpen \o summary[1] \o SummaryClose)
              /\ r[2] = Msg("model", SummaryAck)
        /\ \A i \in 1..Len(recent_turns) : r[k + i] = recent_turns[i]
        /\ r[Len(r)] = Msg("user", new_message)
        /\ (present /\ Len(recent_turns) = 4) => Len(r) = 7
        /\ (summary = None /\ Len(recent_turns) = 0) => r = <<Msg("user", new_message)>>

C6_ContextWithEverySetSummary ==
    (ValidConfig /\ lastOp.op = "build_context")
        => ContextIs(lastOp.result, summary # None, lastOp.msg)

\* C6 as amended: the summary pair is there when the summary is a non-empty text.
C6_ContextWithNonEmptySummary ==
    lastOp.op = "build_context"
        => ContextIs(lastOp.result, summary # None /\ Len(summary[1]) > 0, lastOp.msg)

C6_Witness ==
    /\ ValidConfig
    /\ lastOp.op = "build_context"
    /\ summary # None
    /\ Len(summary[1]) > 0
    /\ Len(recent_turns) = 4
    /\ Len(lastOp.result) = 7

(***************************************************************************)
(* C7.  total_turn_count is the number of add_turn calls made so far,      *)
(* those whose compression failed included; it never decreases and a       *)
(* compression does not change it.                                         *)
(***************************************************************************)
C7_TurnCountCountsAddTurnCalls ==
    /\ [](turn_count = add_turn_calls)
    /\ [][/\ turn_count' >= turn_count
          /\ turn_count' - turn_count = add_turn_calls' - add_turn_calls
          /\ Len(SummarizeCallsIn(lastOp')) > 0 /\ AddTurnStep
             => turn_count' = turn_count + 1]_vars

C7_Witness ==
    /\ ValidConfig
    /\ turn_count = 5
    /\ add_turn_calls = 5
    /\ lastOp.op = "add_turn"
    /\ SummarizationFailed(lastOp)
    /\ summary # None

(***************************************************************************)
(* C8.  Construction with recent_window_size <= 0, compression_threshold   *)
(* <= 0 or compression_threshold <= recent_window_size fails with          *)
(* InvalidConfiguration, so no operation ever runs on such a manager.      *)
(***************************************************************************)
C8_InvalidConfigurationRejected ==
    ~ValidConfig => lastOp.op = "__init__" /\ add_turn_calls = 0

(***************************************************************************)
(* C9.  chat and build_context given the empty message fail with           *)
(* EmptyInput, call no service and leave recent_turns, summary and         *)
(* total_turn_count as they were.  (Stated for the configurations of       *)
(* ValidConfig, where it already fails.)                                   *)
(***************************************************************************)
C9_EmptyInputRejected ==
    [][(/\ ValidConfig
        /\ lastOp'.op \in {"chat", "build_context"}
        /\ Len(lastOp'.msg) = 0)
        => /\ lastOp'.error = "EmptyInput"
           /\ Len(lastOp'.calls) = 0
           /\ UNCHANGED <<recent_turns, summary, turn_count>>]_vars

(***************************************************************************)
(* C10.  With 0 < W < T and no failed summarization, the first             *)
(* compression of a fresh manager happens during add_turn number T + 1;    *)
(* it folds the oldest T + 1 - W turns and nothing else, and leaves the    *)
(* last W turns verbatim (W = 2, T = 4: after the 5th add_turn,            *)
(* recent_turns is turns 4 and 5, summary is the summary of turns 1 to 3,  *)
(* total_turn_count is 5).                                                 *)
(***************************************************************************)
C10_FirstCompression ==
    /\ [](ValidConfig
          => (summarize_calls = 0 <=> add_turn_calls <= summarize_threshold))
    /\ [][(ValidConfig /\ summarize_calls = 0 /\ summarize_calls' > 0
           /\ lastOp'.error = "none")
          => LET W == max_recent_turns
                 T == summarize_threshold
                 c == SummarizeCallsIn(lastOp')
             IN  /\ add_turn_calls' = T + 1
                 /\ turn_count' = T + 1
                 /\ Len(c) = 1
                 /\ c[1].contents = RenderLines(Flatten(SubSeq(added', 1, T + 1 - W)))
                 /\ summary' = Some(strip(c[1].text))
                 /\ recent_turns' = Flatten(SubSeq(added', T + 2 - W, T + 1))]_vars

C10_Witness ==
    /\ max_recent_turns = 2
    /\ summarize_threshold = 4
    /\ turn_count = 5
    /\ summary = Some(<<"s", "1">>)
    /\ recent_turns = Flatten(SubSeq(added, 4, 5))
    /\ Len(SummarizeCallsIn(lastOp)) = 1
    /\ SummarizeCallsIn(lastOp)[1].contents = RenderLines(Flatten(SubSeq(added, 1, 3)))

(***************************************************************************)
(* C11.  The manager starts Fresh (summary = None); it becomes Compressed  *)
(* exactly by a successful summarization inside add_turn, the first one    *)
(* included; and once summary is set, no chat, add_turn, build_context or  *)
(* failed service call makes it None again.                                *)
(***************************************************************************)
SummarizationSucceeded(op) ==
    \E i \in 1..Len(op.calls) :
        op.calls[i].kind = "summarize" /\ op.calls[i].ok

C11_NeverBackToFresh ==
    /\ summary = None
    /\ [][/\ summary # None => summary' # None
          /\ (summary = None /\ summary' # None)
             => AddTurnStep /\ SummarizationSucceeded(lastOp')
          /\ (summary = None /\ AddTurnStep /\ SummarizationSucceeded(lastOp'))
             => summary' # None]_vars

C11_Witness ==
    /\ ValidConfig
    /\ summarize_calls = 2
    /\ summary = Some(<<"s", "1">>)
    /\ SummarizationFailed(lastOp)
    /\ lastOp.error = "ServiceError"

(***************************************************************************)
(* C12.  add_turn calls _compress, before it returns, exactly when the     *)
(* number of turns in recent_turns after the append is strictly greater    *)
(* than the threshold; when no summarization has failed, recent_turns      *)
(* exceeds the threshold by exactly one turn at that moment, and holds at  *)
(* most compression_threshold turns whenever add_turn has returned.        *)
(***************************************************************************)
C12_CompressExactlyAboveThreshold ==
    /\ [](~summarize_failed => Len(recent_turns) \div 2 <= summarize_threshold)
    /\ [][AddTurnStep
          => /\ Len(SummarizeCallsIn(lastOp'))
                  = (IF ExceedsAfterAppend THEN 1 ELSE 0)
             /\ (~summarize_failed /\ ExceedsAfterAppend)
                => (Len(recent_turns) + 2) \div 2 = summarize_threshold + 1]_vars

\* C12 restricted to the configurations of ValidConfig, where it holds.
C12_CompressExactlyAboveThresholdValidConfig ==
    /\ []((ValidConfig /\ ~summarize_failed)
          => Len(recent_turns) \div 2 <= summarize_threshold)
    /\ [][(ValidConfig /\ AddTurnStep)
          => /\ Len(SummarizeCallsIn(lastOp'))
                  = (IF ExceedsAfterAppend THEN 1 ELSE 0)
             /\ (~summarize_failed /\ ExceedsAfterAppend)
                => (Len(recent_turns) + 2) \div 2 = summarize_threshold + 1]_vars

\* C12's first half alone: the trigger of add_turn, in every configuration.
C12_TriggerOnly ==
    [][AddTurnStep
        => Len(SummarizeCallsIn(lastOp')) = (IF ExceedsAfterAppend THEN 1 ELSE 0)]_vars

(***************************************************************************)
(* C13.  After an add_turn whose compression failed, recent_turns stays    *)
(* above the threshold and the very next add_turn (directly, or through    *)
(* chat) attempts compression again; when that attempt succeeds,           *)
(* recent_turns has exactly recent_window_size turns and every turn        *)
(* accumulated since the last successful compression that is not kept was  *)
(* part of that summarization input.                                       *)
(***************************************************************************)
AboveThreshold ==
    Len(recent_turns) \div 2 > summarize_threshold

\* What a retry that succeeds must have done with the turns before it.
RetryFoldsEverythingNotKept ==
    LET before == recent_turns \o NewTurn
        keep == 2 * max_recent_turns
        c == SummarizeCallsIn(lastOp')
    IN  /\ Len(recent_turns') = keep
        /\ recent_turns' = LastOf(before, keep)
        /\ \E pre \in {<<>>} \cup (IF summary # None
                                    THEN {PreviousSummaryPrefix(summary)} ELSE {}) :
              c[1].contents
                = pre \o RenderLines(SubSeq(before, 1, Len(before) - keep))

C13_FailedCompressionRetried ==
    [][/\ (AddTurnStep /\ SummarizationFailed(lastOp'))
          => Len(recent_turns') \div 2 > summarize_threshold
       /\ (AboveThreshold /\ ~AddTurnStep)
          => recent_turns' = recent_turns
       /\ (AboveThreshold /\ AddTurnStep)
          => Len(SummarizeCallsIn(lastOp')) = 1
       /\ (AboveThreshold /\ AddTurnStep /\ lastOp'.error = "none")
          => RetryFoldsEverythingNotKept]_vars

\* C13 restricted to the configurations of ValidConfig, where it holds.
C13_FailedCompressionRetriedValidConfig ==
    [][/\ (ValidConfig /\ AddTurnStep /\ SummarizationFailed(lastOp'))
          => Len(recent_turns') \div 2 > summarize_threshold
       /\ (ValidConfig /\ AboveThreshold /\ ~AddTurnStep)
          => recent_turns' = recent_turns
       /\ (ValidConfig /\ AboveThreshold /\ AddTurnStep)
          => Len(SummarizeCallsIn(lastOp')) = 1
       /\ (ValidConfig /\ AboveThreshold /\ AddTurnStep /\ lastOp'.error = "none")
          => RetryFoldsEverythingNotKept]_vars

\* A retry that succeeded after a failed compression, under ValidConfig.
C13_RetrySucceeded ==
    /\ ValidConfig
    /\ summarize_failed
    /\ summarize_calls = 2
    /\ lastOp.error = "none"
    /\ SummarizationSucceeded(lastOp)
    /\ Len(recent_turns) = 2 * max_recent_turns
    /\ Len(added) = summarize_threshold + 2

(***************************************************************************)
(* C15.  build_context is a pure read: whatever the state and the message, *)
(* it leaves recent_turns, summary and total_turn_count (and the other     *)
(* fields) unchanged and calls no service; and two calls in the same state *)
(* with the same message (build_context called directly, and the call      *)
(* chat makes to build what it sends) return equal sequences.              *)
(***************************************************************************)
C15_BuildContextIsPureRead ==
    [][/\ lastOp'.op = "build_context"
          => /\ UNCHANGED fields
             /\ lastOp'.calls = <<>>
             /\ lastOp'.error = "none"
             /\ summarize_calls' = summarize_calls
       /\ (lastOp.op = "build_context" /\ lastOp'.op = "chat"
           /\ lastOp'.msg = lastOp.msg)
          => lastOp'.calls[1].contents = lastOp.result
       /\ (PrimaryFailed(lastOp) /\ lastOp'.op = "build_context"
           /\ lastOp'.msg = lastOp.msg)
          => lastOp'.result = lastOp.calls[1].contents]_vars

C15_Witness ==
    /\ ValidConfig
    /\ lastOp.op = "build_context"
    /\ Len(lastOp.msg) > 0
    /\ Truthy(summary)
    /\ AboveThreshold
    /\ Len(lastOp.result) = Len(recent_turns) + 3

(***************************************************************************)
(* C16.  Every chat whose primary call succeeds does, in this order: build *)
(* the context from the state before the call; one primary completion call *)
(* with that context; append the exchange (new message, stripped reply) to *)
(* the turn record; the trigger check on the appended record and at most   *)
(* one summarization call.  The summarization call never precedes the      *)
(* primary call, and the context ends with the new message, which it       *)
(* contains exactly once.                                                  *)
(***************************************************************************)
\* How many elements of the sequence L equal x.
CountOf(L, x) ==
    Cardinality({i \in 1..Len(L) : L[i] = x})

ChatSucceededPrimary ==
    /\ lastOp'.op = "chat"
    /\ AddTurnStep

C16_ChatStepOrder ==
    [][ChatSucceededPrimary
        => LET calls == lastOp'.calls
               context == calls[1].contents
               new == Msg("user", lastOp'.msg)
               state == (IF summary # None /\ Len(summary[1]) > 0
                         THEN <<Msg("user", SummaryOpen \o summary[1] \o SummaryClose),
                                Msg("model", SummaryAck)>>
                         ELSE <<>>) \o recent_turns
           IN  /\ Len(calls) \in {1, 2}
               /\ calls[1].kind = "generate" /\ calls[1].ok
               /\ context = state \o <<new>>
               /\ CountOf(context, new) = 1 + CountOf(state, new)
               /\ lastOp'.reply = strip(calls[1].text)
               /\ full_history' = full_history \o NewTurn
               /\ (lastOp'.error = "none" /\ max_recent_turns > 0)
                  => LastOf(recent_turns', 2) = NewTurn
               /\ Len(calls) = 2
                  <=> (Len(recent_turns) + 2) \div 2 > summarize_threshold
               /\ Len(calls) = 2 => calls[2].kind = "summarize"]_vars

C16_Witness ==
    /\ ValidConfig
    /\ lastOp.op = "chat"
    /\ Len(lastOp.msg) > 0
    /\ Len(lastOp.calls) = 2
    /\ lastOp.calls[1].kind = "generate"
    /\ lastOp.calls[2].kind = "summarize"
    /\ lastOp.error = "none"
    /\ Len(lastOp.calls[1].contents) = 2 * summarize_threshold + 3
    /\ Truthy(summary)

(***************************************************************************)
(* C17.  Once a compression has succeeded (summary is set), every          *)
(* build_context result begins with the synthetic summary message          *)
(* followed by the synthetic acknowledgment, whatever text the             *)
(* summarization call returned.  (Stated for the configurations of         *)
(* ValidConfig, where it already fails.)                                   *)
(***************************************************************************)
BeginsWithSummaryPair(r) ==
    /\ Len(r) >= 3
    /\ r[1] = Msg("user", SummaryOpen \o summary[1] \o SummaryClose)
    /\ r[2] = Msg("model", SummaryAck)

C17_CompressedContextBeginsWithSummary ==
    (ValidConfig /\ lastOp.op = "build_context" /\ summary # None)
        => BeginsWithSummaryPair(lastOp.result)

\* C17 as amended: the pair opens the context when the summary is a non-empty
\* text; after a summarization that returned only whitespace the summary is ""
\* and the context is recent_turns and the new message, with no summary pair.
C17_NonEmptySummaryOpensContext ==
    (lastOp.op = "build_context" /\ summary # None)
        => IF Len(summary[1]) > 0
           THEN BeginsWithSummaryPair(lastOp.result)
           ELSE lastOp.result = recent_turns \o <<Msg("user", lastOp.msg)>>

C17_Witness ==
    /\ ValidConfig
    /\ lastOp.op = "build_context"
    /\ summarize_calls >= 2
    /\ summary = Some(<<"s", "2">>)
    /\ BeginsWithSummaryPair(lastOp.result)

(***************************************************************************)
(* C14.  chat calls on one instance are serialized: when two chat calls    *)
(* overlap at the waits for the service, no turn recorded by one call is   *)
(* lost, duplicated or reordered by the other call's _compress: the turns  *)
(* handed to the successful summarizations followed by recent_turns are    *)
(* always the recorded turns, in the order they were recorded.  (Stated    *)
(* for the configurations of ValidConfig, where it already fails.)         *)
(***************************************************************************)
C14_OverlappingChatsLoseNoTurn ==
    ValidConfig
        => /\ full_history = Flatten(added)
           /\ folded \o recent_turns = full_history

(***************************************************************************)
(* C18.  truncate_history(history, max_turns) keeps only the last          *)
(* max_turns turn pairs: for every history and every max_turns >= 0 the    *)
(* result is the last min(len(history), 2 * max_turns) messages of history *)
(* in their order, and it is history itself when len(history) <=           *)
(* 2 * max_turns.                                                          *)
(***************************************************************************)
Min(a, b) ==
    IF a <= b THEN a ELSE b

KeepsLastPairs ==
    /\ returned.value = LastOf(history, Min(Len(history), 2 * max_turns))
    /\ Len(history) <= 2 * max_turns => returned.value = history

C18_TruncateKeepsLastPairs ==
    returned.fn = "truncate_history" => KeepsLastPairs

\* C18 for max_turns >= 1, where it holds.
C18_TruncateKeepsLastPairsPositive ==
    (returned.fn = "truncate_history" /\ max_turns >= 1) => KeepsLastPairs

\* A call that had to drop messages, with max_turns >= 1.
C18_Truncated ==
    /\ returned.fn = "truncate_history"
    /\ max_turns = 3
    /\ Len(history) = 8
    /\ Len(returned.value) = 6
    /\ returned.value[1] = history[3]

(***************************************************************************)
(* C19.  sliding_window_by_tokens keeps as many recent turns as fit in the *)
(* budget: for a history of complete pairs the returned list is the        *)
(* longest suffix of whole pairs, in their order, whose estimated tokens   *)
(* (len // 4 per message) plus the system prompt's estimate do not exceed  *)
(* max_total_tokens; the scan stops at the first pair that does not fit,   *)
(* so no pair older than a rejected pair is kept.  (Stated for the         *)
(* non-empty histories, where it already fails.)                           *)
(***************************************************************************)
\* The estimate of a list of messages: len(text) // 4 for each.
RECURSIVE EstimatedTokens(_)
EstimatedTokens(msgs) ==
    IF Len(msgs) = 0 THEN 0
    ELSE Len(Head(msgs).text) \div 4 + EstimatedTokens(Tail(msgs))

\* The last j pairs of history fit in the budget, the system prompt included.
Fits(j) ==
    EstimatedTokens(LastOf(history, 2 * j)) + Len(system_prompt) \div 4
        <= max_total_tokens

\* The returned list is the longest suffix of whole pairs that fits.
LongestFittingSuffix ==
    \E j \in 0..(Len(history) \div 2) :
        /\ returned.value = LastOf(history, 2 * j)
        /\ Fits(j)
        /\ \A k \in (j + 1)..(Len(history) \div 2) : ~Fits(k)

C19_LongestSuffixInBudget ==
    (returned.fn = "sliding_window_by_tokens" /\ Len(history) > 0)
        => LongestFittingSuffix

\* C19 as amended: that, when the system prompt's estimate is within the
\* budget; when it alone exceeds max_total_tokens the first pair is rejected
\* and the returned list is empty, although not even that fits.
C19_LongestSuffixOrNothing ==
    returned.fn = "sliding_window_by_tokens"
        => /\ IF Len(system_prompt) \div 4 <= max_total_tokens
              THEN LongestFittingSuffix
              ELSE returned.value = <<>>
           /\ returned.tokens
                = EstimatedTokens(returned.value) + Len(system_prompt) \div 4

\* The scan stopped at a pair that does not fit although the pair before it
\* would have fitted in what was left.
C19_Witness ==
    /\ returned.fn = "sliding_window_by_tokens"
    /\ Len(history) = 6
    /\ Len(returned.value) = 2
    /\ returned.value = LastOf(history, 2)
    /\ returned.tokens + EstimatedTokens(SubSeq(history, 1, 2)) <= max_total_tokens
    /\ returned.tokens + EstimatedTokens(SubSeq(history, 3, 4)) > max_total_tokens

(***************************************************************************)
(* C20.  In run_blog_pipeline the steps run in the fixed order Extract,    *)
(* Gate, Draft, Critique, Polish: if the gate counts fewer than 2 key      *)
(* points the chain stops at once, returns the 'CHAIN STOPPED' string and  *)
(* makes no further LLM call (exactly one call in total); otherwise Draft, *)
(* Critique and Polish are each called exactly once in that order and the  *)
(* Polish output is returned.                                              *)
(***************************************************************************)
StepOrder ==
    <<"EXTRACT_SYSTEM_V2", "DRAFT_SYSTEM_V2", "CRITIQUE_SYSTEM", "POLISH_SYSTEM">>

CallsInOrder ==
    /\ Len(llm_calls) <= Len(StepOrder)
    /\ \A i \in 1..Len(llm_calls) : llm_calls[i].system = StepOrder[i]

\* run_blog_pipeline is over, by a return or by an exception.
PipelineEnded ==
    pipeline_pc \in {"returned", "raised"}

\* Step 1 returned, so the gate counted the points of its text.
GateCounted ==
    Len(llm_calls) >= 1 /\ llm_calls[1].ok

ChainStopped ==
    SubSeq(ChainStoppedOpen, 1, 13)

C20_GateThenThreeSteps ==
    (PipelineEnded /\ GateCounted)
        => IF count_points(llm_calls[1].text) < 2
           THEN /\ Len(llm_calls) = 1
                /\ StartsWith(pipeline_returned, ChainStopped)
           ELSE /\ CallsInOrder
                /\ Len(llm_calls) = 4
                /\ pipeline_returned = llm_calls[4].text

\* C20 as amended: the order is fixed and the gate stops the chain as said;
\* past the gate each step is called once as long as the step before it
\* returned, and the Polish output is returned when no call raised; a call
\* that raises ends the pipeline with that exception, no later step is called
\* and nothing is returned.
C20_GateThenStepsUnlessRaised ==
    /\ CallsInOrder
    /\ \A i \in 2..Len(llm_calls) : llm_calls[i - 1].ok
    /\ Len(llm_calls) >= 2 => count_points(llm_calls[1].text) >= 2
    /\ (PipelineEnded /\ GateCounted)
       => IF count_points(llm_calls[1].text) < 2
          THEN /\ Len(llm_calls) = 1
               /\ pipeline_pc = "returned"
               /\ pipeline_returned
                    = ChainStoppedOpen
                      \o <<DigitChar(count_points(llm_calls[1].text))>>
                      \o ChainStoppedClose
          ELSE IF \A i \in 1..Len(llm_calls) : llm_calls[i].ok
               THEN /\ Len(llm_calls) = 4
                    /\ pipeline_pc = "returned"
                    /\ pipeline_returned = llm_calls[4].text
               ELSE /\ pipeline_pc = "raised"
                    /\ ~llm_calls[Len(llm_calls)].ok
                    /\ pipeline_returned = <<>>

C20_Witness ==
    /\ pipeline_pc = "returned"
    /\ count_points(key_points) = 2
    /\ Len(llm_calls) = 4
    /\ llm_calls[2].text = <<"d", "2">>
    /\ pipeline_returned = <<"f", "1">>

(***************************************************************************)
(* C22.  The transcript sent to a summarization call contains exactly the  *)
(* folded turns recent_turns[0 : len(recent_turns) - recent_window_size],  *)
(* each rendered as one user line followed by one assistant line, in       *)
(* their order, and contains none of the kept turns.                       *)
(***************************************************************************)
\* The text sub occurs in the text t.
Contains(t, sub) ==
    \E i \in 0..(Len(t) - Len(sub)) : SubSeq(t, i + 1, i + Len(sub)) = sub

\* One user line followed by one assistant line for each turn of the messages.
RECURSIVE TurnLines(_)
TurnLines(msgs) ==
    IF Len(msgs) < 2 THEN <<>>
    ELSE UserLabel \o <<":", " ">> \o msgs[1].text \o <<"\n">>
         \o AssistantLabel \o <<":", " ">> \o msgs[2].text \o <<"\n">>
         \o TurnLines(SubSeq(msgs, 3, Len(msgs)))

\* The transcript of this step's summarization call is the lines of all turns
\* of recent_turns (the new turn appended) but the last recent_window_size,
\* after the previous summary if there is one, and no text of a kept turn is
\* in it (every turn's texts are its own: Question, ModelResponses).
TranscriptIsFoldedTurns ==
    LET before == recent_turns \o NewTurn
        keep == 2 * max_recent_turns
        c == SummarizeCallsIn(lastOp')
    IN  /\ Len(before) >= keep
        /\ \E pre \in {<<>>} \cup (IF summary # None
                                    THEN {PreviousSummaryPrefix(summary)} ELSE {}) :
              c[1].contents = pre \o TurnLines(SubSeq(before, 1, Len(before) - keep))
        /\ \A i \in (Len(before) - keep + 1)..Len(before) :
              before[i].text # <<>> => ~Contains(c[1].contents, before[i].text)

C22_TranscriptIsFoldedTurns ==
    [][(AddTurnStep /\ Len(SummarizeCallsIn(lastOp')) > 0)
        => TranscriptIsFoldedTurns]_vars

\* C22 restricted to the configurations of ValidConfig, where it holds.
C22_TranscriptIsFoldedTurnsValidConfig ==
    [][(ValidConfig /\ AddTurnStep /\ Len(SummarizeCallsIn(lastOp')) > 0)
        => TranscriptIsFoldedTurns]_vars

(***************************************************************************)
(* C23.  In every configuration __init__ accepts (any max_recent_turns     *)
(* >= 0 and any summarize_threshold, max_recent_turns = 0 and              *)
(* summarize_threshold < max_recent_turns among them), a triggered         *)
(* _compress whose summarization succeeds summarizes all turns but the     *)
(* last max_recent_turns and leaves exactly max_recent_turns turns in      *)
(* recent_turns.                                                           *)
(***************************************************************************)
\* The messages of a list but those of its last n turns.
AllButLastTurns(msgs, n) ==
    SubSeq(msgs, 1, IF Len(msgs) > 2 * n THEN Len(msgs) - 2 * n ELSE 0)

\* This step's summarization call was given the lines of the messages
\* to_fold, after the previous summary if there is one.
Summarized(to_fold) ==
    LET c == SummarizeCallsIn(lastOp')
    IN  \E pre \in {<<>>} \cup (IF summary # None
                                  THEN {PreviousSummaryPrefix(summary)} ELSE {}) :
            c[1].contents = pre \o TurnLines(to_fold)

C23_CompressInEveryConfiguration ==
    [][(AddTurnStep /\ SummarizationSucceeded(lastOp'))
        => /\ Summarized(AllButLastTurns(recent_turns \o NewTurn, max_recent_turns))
           /\ Len(recent_turns') \div 2 = max_recent_turns
           /\ Len(recent_turns') % 2 = 0]_vars

\* What holds of C23 in every configuration with max_recent_turns >= 1: all
\* turns but the last max_recent_turns are summarized, and the turns left are
\* max_recent_turns or, when fewer were there, all of them.
C23_CompressWithPositiveWindow ==
    [][(max_recent_turns > 0 /\ AddTurnStep /\ SummarizationSucceeded(lastOp'))
        => LET before == recent_turns \o NewTurn
           IN  /\ Summarized(AllButLastTurns(before, max_recent_turns))
               /\ recent_turns' = LastOf(before, Min(2 * max_recent_turns, Len(before)))]_vars

AlternatesFromUser(msgs) ==
    \A i \in 1..Len(msgs) :
        msgs[i].role = (IF i % 2 = 1 THEN "user" ELSE "model")

C25_TruncateDropsWholePairs ==
    (/\ returned.fn = "truncate_history"
     /\ AlternatesFromUser(history)
     /\ Len(history) > 0
     /\ max_turns >= 1)
    => /\ Len(returned.value) > 0
       /\ returned.value[1].role = "user"

\* C25 for the histories of complete pairs (even length), where it holds.
C25_TruncateDropsWholePairsOfPairs ==
    (/\ returned.fn = "truncate_history"
     /\ AlternatesFromUser(history)
     /\ Len(history) > 0
     /\ Len(history) % 2 = 0
     /\ max_turns >= 1)
    => /\ Len(returned.value) > 0
       /\ AlternatesFromUser(returned.value)

\* A history of complete pairs that lost its two oldest pairs.
C25_PairsTruncated ==
    /\ returned.fn = "truncate_history"
    /\ AlternatesFromUser(history)
    /\ Len(history) = 8
    /\ max_turns = 2
    /\ returned.value = SubSeq(history, 5, 8)

(***************************************************************************)
(* C26.  In run_blog_pipeline the Critique call receives only the draft,   *)
(* never the topic or the key points, and the Polish call receives both    *)
(* the draft of step 2 and the critique of step 3, each exactly the value  *)
(* the earlier call returned.                                              *)
(***************************************************************************)
C26_CritiqueSeesDraftPolishSeesBoth ==
    /\ Len(llm_calls) >= 3
       => /\ llm_calls[3].system = "CRITIQUE_SYSTEM"
          /\ llm_calls[2].ok
          /\ llm_calls[3].user_message = BlogPostDraftLabel \o llm_calls[2].text
          /\ ~Contains(llm_calls[3].user_message, topic)
          /\ ~Contains(llm_calls[3].user_message, llm_calls[1].text)
    /\ Len(llm_calls) >= 4
       => /\ llm_calls[4].system = "POLISH_SYSTEM"
          /\ llm_calls[3].ok
          /\ llm_calls[4].user_message =
               OriginalDraftLabel \o llm_calls[2].text \o EditorFeedbackLabel
                 \o llm_calls[3].text \o RewriteInstruction

\* A chain that ran all four steps on the second draft and critique texts.
C26_Witness ==
    /\ pipeline_pc = "returned"
    /\ Len(llm_calls) = 4
    /\ llm_calls[2].text = <<"d", "2">>
    /\ llm_calls[3].text = <<"c", "2">>
    /\ Contains(llm_calls[3].user_message, <<"d", "2">>)
    /\ Contains(llm_calls[4].user_message, <<"d", "2">>)
    /\ Contains(llm_calls[4].user_message, <<"c", "2">>)

AlternatesAndEndsWithUser(context) ==
    /\ AlternatesFromUser(context)
    /\ Len(context) % 2 = 1

C28_TurnPairsNeverSplit ==
    /\ Len(recent_turns) % 2 = 0
    /\ AlternatesFromUser(recent_turns)
    /\ lastOp.op = "build_context" => AlternatesAndEndsWithUser(lastOp.result)
    /\ \A i \in 1..Len(lastOp.calls) :
          lastOp.calls[i].kind = "generate"
            => AlternatesAndEndsWithUser(lastOp.calls[i].contents)

\* build_context after a compression that kept turns: summary pair, kept
\* turns, new message.
C28_Witness ==
    /\ ValidConfig
    /\ lastOp.op = "build_context"
    /\ Truthy(summary)
    /\ Len(recent_turns) >= 2
    /\ Len(lastOp.result) = Len(recent_turns) + 3
    /\ lastOp.result[Len(lastOp.result)].role = "user"
    /\ lastOp.result[2].role = "model"

(***************************************************************************)
(* C21.  The JSON gate of example 4 catches every malformed extraction     *)
(* output: whatever text step 1 returned (JSON, JSON in markdown fencing,  *)
(* fencing without a line break, JSON that is no object, text that is no   *)
(* JSON), the gate ends with gate_passed True and the metadata parsed, or  *)
(* with gate_passed False; no exception escapes it; and the draft call of  *)
(* step 2 is made exactly when gate_passed is True.                        *)
(***************************************************************************)
\* Step 1 returned a text and the gate has run on it.
GateRan ==
    /\ Len(example4_calls) >= 1
    /\ example4_calls[1].ok
    /\ example4_pc # "gate"

\* The script is over, by its last statement or by an exception.
Example4Over ==
    example4_pc \in {"ended", "raised"}

C21_JsonGateCatchesEveryOutput ==
    /\ GateRan
       => /\ escaped.at # "gate"
          /\ gate_passed \in {Some(TRUE), Some(FALSE)}
          /\ gate_passed = Some(TRUE)
             => metadata # None /\ metadata[1].type = "dict"
    /\ (GateRan /\ Example4Over)
       => ((Len(example4_calls) = 2) <=> (gate_passed = Some(TRUE)))

\* What holds of C21: the exceptions that leave the gate are the IndexError
\* of a fenced text without a line break and the AttributeError of JSON that
\* is no object; in every other case gate_passed is True with a parsed
\* object or False, step 2 is not entered when it is False, and when it is
\* True the draft call is made unless formatting the metadata raised.
C21_WhatLeavesTheGate ==
    /\ (GateRan /\ escaped.at = "gate")
       => /\ gate_passed = None
          /\ Len(example4_calls) = 1
          /\ \/ /\ escaped.exception = "IndexError"
                /\ startswith(strip(raw_json[1]), Fence)
                /\ ~Contains(strip(raw_json[1]), <<"\n">>)
             \/ /\ escaped.exception = "AttributeError"
                /\ metadata # None
                /\ metadata[1].type # "dict"
    /\ (GateRan /\ escaped.at # "gate")
       => /\ gate_passed \in {Some(TRUE), Some(FALSE)}
          /\ gate_passed = Some(TRUE)
             => metadata # None /\ metadata[1].type = "dict"
          /\ gate_passed = Some(FALSE)
             => Len(example4_calls) = 1 /\ example4_pc = "ended"
          /\ (gate_passed = Some(TRUE) /\ Example4Over)
             => \/ Len(example4_calls) = 2
                \/ escaped = Raised("TypeError", "step 2")

\* A fenced object passed the gate and the draft was written from it.
C21_FencedObjectPasses ==
    /\ example4_pc = "ended"
    /\ startswith(raw_json[1], Fence)
    /\ gate_passed = Some(TRUE)
    /\ Len(Get(metadata[1], <<"k", "e", "y", "_", "p", "o", "i", "n", "t", "s">>,
               JsonValue("list", <<>>)).value) = 2
    /\ Len(example4_calls) = 2
    /\ draft4 # None

\* An explanation around the JSON stopped the chain at the gate.
C21_NonJsonStopsChain ==
    /\ example4_pc = "ended"
    /\ gate_passed = Some(FALSE)
    /\ startswith(raw_json[1], <<"H", "e", "r", "e">>)
    /\ Len(example4_calls) = 1

====
